---------------------------- MODULE Spec2Model ----------------------------
(***************************************************************************)
(* A model of golink (package golink: db.go, golink.go, schema.sql).       *)
(*                                                                         *)
(* Strings are sequences of lexemes.  A short name is a sequence of        *)
(* one-character lexemes ("a", "B", "-", " "); a URL may also hold the     *)
(* lexemes "http://", "https://", a host name and "/".  Times are counted  *)
(* in ticks, SubSec ticks to the second, so that the conversion to the     *)
(* unix seconds the Links table stores is not the identity.                *)
(***************************************************************************)
EXTENDS Integers, Sequences, FiniteSets, Bags, TLC

VARIABLES
    links,        \* table Links: a set of rows
    statsRows,    \* table Stats: a bag of rows (append-only batches)
    clicks,       \* stats.clicks: short name -> number of visits
    dirty,        \* stats.dirty: clicks not yet stored
    phase,        \* where Run() stands: "start", "restored", "serving"
    readonly,     \* flag -readonly
    allowUnknownUsers, \* flag -allow-unknown-users
    LastSnapshot, \* the snapshot to restore on startup, a sequence of lines
    last,         \* the operation that produced this state, with its response
    recorded,     \* history: key -> clicks handed to SaveStats so far
    accepted,     \* history: ID -> count loaded at startup plus visits
                  \* served since, for the links created and not deleted
    rl,           \* the running resolveLink call
    ex,           \* the running expandLink call
    files,        \* the directory of a FileDB: path -> content of the file
    run           \* the stats mutex and the handlers and flushes under way

vars == <<links, statsRows, clicks, dirty, phase, readonly, allowUnknownUsers,
          LastSnapshot, last, recorded, accepted,
          rl, ex, files, run>>

-----------------------------------------------------------------------------
(* Bounds of the model.                                                    *)

\* ticks per second
SubSec == 2
\* rows the Stats table may hold before the driver of SpecDB stops adding
MaxStatsRows == 3
\* largest click count of one key of a SaveStats batch of SpecDB
MaxBatchClicks == 2

-----------------------------------------------------------------------------
(* Strings.                                                                *)

RECURSIVE SumOver(_, _)
\* the sum of f[x] over the finite set S of DOMAIN f
SumOver(S, f) ==
    IF S = {} THEN 0
    ELSE LET x == CHOOSE x \in S : TRUE IN f[x] + SumOver(S \ {x}, f)

\* the value of map m at key k, the zero value for a missing key
Get(m, k) == IF k \in DOMAIN m THEN m[k] ELSE 0

\* map m with key k set to v
Put(m, k, v) == [x \in DOMAIN m \cup {k} |-> IF x = k THEN v ELSE m[x]]

\* map m without key k
Del(m, k) == [x \in DOMAIN m \ {k} |-> m[x]]

EmptyMap == [x \in {} |-> 0]

\* strings.ToLower on one lexeme
LowerChar(c) ==
    CASE c = "A" -> "a"
      [] c = "B" -> "b"
      [] c = "C" -> "c"
      [] OTHER -> c

ToLower(s) == [i \in 1..Len(s) |-> LowerChar(s[i])]

\* url.PathEscape on one lexeme: a space and a slash are percent-encoded,
\* letters, "-" and "." are kept
EscapeChar(c) ==
    CASE c = " " -> <<"%", "2", "0">>
      [] c = "/" -> <<"%", "2", "F">>
      [] c = "%" -> <<"%", "2", "5">>
      [] OTHER -> <<c>>

RECURSIVE PathEscape(_)
PathEscape(s) ==
    IF s = <<>> THEN <<>> ELSE EscapeChar(Head(s)) \o PathEscape(Tail(s))

\* strings.ReplaceAll(s, c, "")
RemoveAll(s, c) == SelectSeq(s, LAMBDA x : x # c)

\* linkID returns the normalized ID for a link short name.
linkID(short) == RemoveAll(PathEscape(ToLower(short)), "-")

-----------------------------------------------------------------------------
(* Times.                                                                  *)

\* time.Time.Unix(): whole seconds, rounded down
Unix(t) == t \div SubSec

\* time.Unix(sec, 0).UTC()
FromUnix(sec) == sec * SubSec

-----------------------------------------------------------------------------
(* The store (SQLiteDB).                                                   *)

\* the value of a nil *Link
NilLink == [Short |-> <<>>, Long |-> <<>>, Created |-> 0, LastEdit |-> 0,
            Owner |-> ""]

\* the row Save writes for link
LinkRow(link) ==
    [ID |-> linkID(link.Short), Short |-> link.Short, Long |-> link.Long,
     Created |-> Unix(link.Created), LastEdit |-> Unix(link.LastEdit),
     Owner |-> link.Owner]

\* the Link that Scan and time.Unix build from a row
RowLink(r) ==
    [Short |-> r.Short, Long |-> r.Long, Created |-> FromUnix(r.Created),
     LastEdit |-> FromUnix(r.LastEdit), Owner |-> r.Owner]

\* LoadAll returns all stored Links.
LoadAll == {RowLink(r) : r \in links}

\* a Load that selects on the Short column instead of the ID
LoadByShort(rows, short) ==
    LET m == {r \in rows : r.Short = short}
    IN  IF m = {} THEN [err |-> "ErrNotExist", link |-> NilLink]
        ELSE [err |-> "nil", link |-> RowLink(CHOOSE r \in m : TRUE)]

\* Load on the table rows: SELECT ... WHERE ID = linkID(short) LIMIT 1;
\* sql.ErrNoRows becomes fs.ErrNotExist and the link is nil.
LoadFrom(rows, short) ==
    LET m == {r \in rows : r.ID = linkID(short)}
    IN  IF m = {} THEN [err |-> "ErrNotExist", link |-> NilLink]
        ELSE [err |-> "nil", link |-> RowLink(CHOOSE r \in m : TRUE)]

\* Load returns a Link by its short name.
Load(short) == LoadFrom(links, short)

\* an error of the database that is not sql.ErrNoRows
ErrIO == "io"

\* a Load that reports every error as fs.ErrNotExist
LoadAllNotExist(rows, short, fault) ==
    IF fault THEN [err |-> "ErrNotExist", link |-> NilLink]
    ELSE LoadFrom(rows, short)

\* Load on a database whose query fails when fault holds: an error of Scan
\* that is not sql.ErrNoRows is returned as it is, with a nil link
LoadOrFail(rows, short, fault) ==
    IF fault THEN [err |-> ErrIO, link |-> NilLink]
    ELSE LoadFrom(rows, short)

\* a Save that is a plain INSERT keyed by the Short column
SaveKeyedByShort(rows, link) ==
    {r \in rows : r.Short # link.Short} \cup {LinkRow(link)}

\* a Save that keeps the row an ID already has (INSERT OR IGNORE)
SaveIgnore(rows, link) ==
    IF \E r \in rows : r.ID = linkID(link.Short) THEN rows
    ELSE rows \cup {LinkRow(link)}

\* a Save that keeps the Created column of the row an ID already has
SaveKeepCreated(rows, link) ==
    LET old == {r \in rows : r.ID = linkID(link.Short)}
        new == LinkRow(link)
    IN  (rows \ old) \cup
        {IF old = {} THEN new
         ELSE [new EXCEPT !.Created = (CHOOSE r \in old : TRUE).Created]}

\* Save on the table rows: INSERT OR REPLACE INTO Links, ID being the
\* primary key (schema.sql).  The value is the table after the statement.
SaveTo(rows, link) ==
    {r \in rows : r.ID # linkID(link.Short)} \cup {LinkRow(link)}

\* Save saves a Link.
Save(link) == SaveTo(links, link)

\* the IDs the Stats table has rows for (GROUP BY ID)
StatsIDs == {r.ID : r \in BagToSet(statsRows)}

\* sum(Clicks) of the rows of one ID
SumClicks(id) ==
    LET rs == {r \in BagToSet(statsRows) : r.ID = id}
    IN  SumOver(rs, [r \in rs |-> r.Clicks * statsRows[r]])

\* linkmap of LoadStats: ID => Short, the zero value "" for a missing ID
LinkMapShort(id) ==
    LET m == {r \in links : r.ID = id}
    IN  IF m = {} THEN <<>> ELSE (CHOOSE r \in m : TRUE).Short

\* LoadStats returns click stats for links: every map the call can return.
\* stats[short] = clicks is executed once per group; when several groups map
\* to one short (groups without a link all map to ""), the group scanned
\* last wins, and SQLite fixes no order.
LoadStats ==
    LET keys == {LinkMapShort(id) : id \in StatsIDs}
        cands(k) == {SumClicks(id) : id \in {i \in StatsIDs : LinkMapShort(i) = k}}
    IN  {m \in [keys -> UNION {cands(k) : k \in keys}] :
            \A k \in keys : m[k] \in cands(k)}

\* the rows one SaveStats batch inserts, as a bag
BatchRows(stats) ==
    LET ids == {linkID(k) : k \in DOMAIN stats}
        rows == {[ID |-> linkID(k), Clicks |-> stats[k]] : k \in DOMAIN stats}
    IN  [r \in rows |-> Cardinality({k \in DOMAIN stats :
                                       linkID(k) = r.ID /\ stats[k] = r.Clicks})]

\* a SaveStats that replaces the rows of the IDs of the batch
SaveStatsReplace(stats) ==
    LET ids == {linkID(k) : k \in DOMAIN stats}
        kept == {r \in BagToSet(statsRows) : r.ID \notin ids}
    IN  [r \in kept |-> statsRows[r]] (+) BatchRows(stats)

\* SaveStats records click stats for links: one INSERT INTO Stats per key of
\* the batch, in one transaction.  The value is the table after the commit.
SaveStats(stats) == statsRows (+) BatchRows(stats)


\* Delete removes the link of short's normalized ID from the Links table.
DeleteFrom(rows, short) == {r \in rows : r.ID # linkID(short)}

\* DeleteStats removes the Stats rows of short's normalized ID.
DeleteStats(short) ==
    LET kept == {r \in BagToSet(statsRows) : r.ID # linkID(short)}
    IN  [r \in kept |-> statsRows[r]]

-----------------------------------------------------------------------------
(* Link expansion.                                                         *)

\* strings.HasPrefix / strings.TrimPrefix on lexeme sequences
HasPrefix(s, p) == Len(s) >= Len(p) /\ SubSeq(s, 1, Len(p)) = p
TrimPrefix(s, p) == IF HasPrefix(s, p) THEN SubSeq(s, Len(p) + 1, Len(s)) ELSE s

\* strings.HasSuffix(s, c) for a one-lexeme suffix
HasSuffix(s, c) == Len(s) >= 1 /\ s[Len(s)] = c

\* strings.Cut(s, sep): the text before and after the first sep
Cut(s, sep) ==
    IF \E i \in 1..Len(s) : s[i] = sep
    THEN LET i == CHOOSE i \in 1..Len(s) :
                      s[i] = sep /\ \A j \in 1..(i - 1) : s[j] # sep
         IN  [before |-> SubSeq(s, 1, i - 1), after |-> SubSeq(s, i + 1, Len(s))]
    ELSE [before |-> s, after |-> <<>>]

RECURSIVE TrimRight(_, _)
\* strings.TrimRight(s, cutset)
TrimRight(s, cutset) ==
    IF s # <<>> /\ s[Len(s)] \in cutset
    THEN TrimRight(SubSeq(s, 1, Len(s) - 1), cutset)
    ELSE s

\* the template actions a Long may hold, each one lexeme
TmplPath == "{{.Path}}"
TmplWithPath == "{{with .Path}}/{{.}}{{end}}"
TmplUser == "{{.User}}"
TmplInvalid == "{{.Invalid}}"
\* an action that is never closed: the template does not parse
TmplOpen == "{{"
TmplLexemes == {TmplPath, TmplWithPath, TmplUser, TmplInvalid, TmplOpen}

\* strings.Contains(long, "{{")
HasTemplate(long) == \E i \in 1..Len(long) : long[i] \in TmplLexemes

\* a parser that accepts every text
TemplateParsesAlways(long) == TRUE

\* texttemplate.New("").Funcs(expandFuncMap).Parse(long) succeeds
TemplateParses(long) == \A i \in 1..Len(long) : long[i] # TmplOpen

\* the action c fails when it is executed with env
ExecFails(c, env) ==
    \/ c = TmplUser /\ env.user = ""
    \/ c = TmplInvalid

\* the error of the action c
ExecError(c) == IF c = TmplUser THEN "errNoUser" ELSE "exec"

\* what the lexeme c of a template writes when it is executed with env
ExecOutput(c, env) ==
    CASE c = TmplPath -> env.Path
      [] c = TmplWithPath ->
           IF env.Path # <<>> THEN <<"/">> \o env.Path ELSE <<>>
      [] c = TmplUser -> <<env.user>>
      [] OTHER -> <<c>>

RECURSIVE ExecuteFrom(_, _, _, _)
\* the lexemes from the i-th on executed after out has been written
ExecuteFrom(long, env, i, out) ==
    IF i > Len(long) THEN [err |-> "nil", out |-> out]
    ELSE IF ExecFails(long[i], env)
    THEN [err |-> ExecError(long[i]), out |-> <<>>]
    ELSE ExecuteFrom(long, env, i + 1, out \o ExecOutput(long[i], env))

\* tmpl.Execute(buf, env): the output, or the first error
Execute(long, env) == ExecuteFrom(long, env, 1, <<>>)

NilURL == [Scheme |-> "", Host |-> "", Path |-> <<>>, RawQuery |-> <<>>]

\* the lexemes of a query: "?" starts it, "&" separates its settings; a
\* setting starts with a lexeme key=value ("a=1", "a=2", "b=2"), and "q=a;b"
\* is a setting that url.ParseQuery rejects (a semicolon that is not encoded)
QueryBad == {"q=a;b"}

\* the key of a setting
QueryKey(kv) == IF kv \in {"a=1", "a=2"} THEN "a" ELSE "b"

\* the keys in the order of sort.Strings
QueryKeys == <<"a", "b">>

\* a percent sign that no two hex digits follow
BadEscape == "%"

\* url.Parse succeeds: the path holds no invalid escape
URLParses(text) ==
    \A i \in 1..Len(Cut(text, "?").before) : text[i] # BadEscape

\* url.Parse: the text after the first "?" is RawQuery; a text that starts
\* with a scheme has the next lexeme as Host
ParseURL(text) ==
    LET rest == Cut(text, "?").before
        raw == Cut(text, "?").after
    IN  IF Len(rest) >= 1 /\ rest[1] \in {"http://", "https://"}
        THEN IF Len(rest) >= 2 /\ rest[2] # "/"
             THEN [Scheme |-> rest[1], Host |-> rest[2],
                   Path |-> SubSeq(rest, 3, Len(rest)), RawQuery |-> raw]
             ELSE [Scheme |-> rest[1], Host |-> "",
                   Path |-> SubSeq(rest, 2, Len(rest)), RawQuery |-> raw]
        ELSE [Scheme |-> "", Host |-> "", Path |-> rest, RawQuery |-> raw]

\* u.String()
URLString(u) ==
    (IF u.Scheme = "" THEN <<>> ELSE <<u.Scheme>>) \o
    (IF u.Host = "" THEN <<>> ELSE <<u.Host>>) \o
    u.Path \o
    (IF u.RawQuery = <<>> THEN <<>> ELSE <<"?">> \o u.RawQuery)

RECURSIVE SplitAmp(_)
\* the texts between the "&" of a raw query, the empty ones left out
SplitAmp(raw) ==
    IF raw = <<>> THEN <<>>
    ELSE LET c == Cut(raw, "&")
         IN  (IF c.before = <<>> THEN <<>> ELSE <<c.before>>) \o
             SplitAmp(c.after)

\* url.ParseQuery accepts the setting: no semicolon, no invalid escape
SettingOK(kv) ==
    \A i \in 1..Len(kv) : kv[i] \notin QueryBad /\ kv[i] # BadEscape

\* the key of a setting that starts with a lexeme key=value
SettingKey(kv) == QueryKey(kv[1])

\* url.QueryEscape on one lexeme of a value
QueryEscape(c) == IF c = "/" THEN "%2F" ELSE c

\* a setting as query.Encode writes it
EncodeSetting(kv) == [i \in 1..Len(kv) |-> QueryEscape(kv[i])]

\* u.Query(): the settings of RawQuery in their order; url.ParseQuery skips
\* the settings it rejects and Query drops its error
Query(u) == SelectSeq(SplitAmp(u.RawQuery), SettingOK)

\* query.Add(key, v) for every key and value of the request: the values of
\* a key are appended to those the key has
AddAll(query, request) == query \o request

RECURSIVE JoinAmp(_)
\* the settings joined by "&"
JoinAmp(kvs) ==
    IF kvs = <<>> THEN <<>>
    ELSE IF Len(kvs) = 1 THEN EncodeSetting(kvs[1])
    ELSE EncodeSetting(Head(kvs)) \o <<"&">> \o JoinAmp(Tail(kvs))

RECURSIVE EncodeFrom(_, _)
\* the settings of the keys from the i-th on, each key with its values in
\* their order
EncodeFrom(values, i) ==
    IF i > Len(QueryKeys) THEN <<>>
    ELSE SelectSeq(values, LAMBDA kv : SettingKey(kv) = QueryKeys[i]) \o
         EncodeFrom(values, i + 1)

\* query.Encode(): sorted by key
Encode(values) == JoinAmp(EncodeFrom(values, 1))

\* expandLink returns the expanded long URL to redirect to, executing any
\* embedded templates with env data.  If long does not include templates,
\* the default behavior is to append env.Path to long.  The query
\* parameters of the request are added to those of the expanded URL.
expandLink(long, env) ==
    LET tmpl == IF ~HasTemplate(long)
                THEN IF HasSuffix(long, "/") THEN long \o <<TmplPath>>
                     ELSE long \o <<TmplWithPath>>
                ELSE long
    IN  IF ~TemplateParses(tmpl) THEN [err |-> "parse", url |-> NilURL]
        ELSE LET buf == Execute(tmpl, env)
             IN  IF buf.err # "nil" THEN [err |-> buf.err, url |-> NilURL]
                 ELSE IF ~URLParses(buf.out)
                 THEN [err |-> "escape", url |-> NilURL]
                 ELSE LET u == ParseURL(buf.out)
                      IN  [err |-> "nil",
                           url |-> IF Len(env.query) > 0
                                   THEN [u EXCEPT !.RawQuery =
                                           Encode(AddAll(Query(u), env.query))]
                                   ELSE u]

-----------------------------------------------------------------------------
(* The store driven through its API, as db_test.go and sqlite_test.go      *)
(* drive it: any sequence of Save and SaveStats calls on a fresh database. *)

\* lexeme sequences used as Long values
LongWho == <<"http://", "who", "/">>
LongMeet == <<"https://", "meet.google.com", "/", "lookup", "/">>

\* the short names handed to Save: two spellings of one ID, and another ID
DBShorts == { <<"a">>, <<"B", "-", "c">>, <<"b", "c">> }

\* the keys of SaveStats batches: spellings of stored and of unknown links
DBStatKeys == { <<"a">>, <<"b", "-", "c">>, <<"b", "c">> }

\* the (Created, LastEdit) pairs of the links handed to Save, in ticks:
\* whole seconds, and times with a sub-second part
DBTimes == { <<0, 0>>, <<SubSec, SubSec + 1>> }

DBLinks ==
    { [Short |-> s, Long |-> l, Created |-> t[1], LastEdit |-> t[2],
       Owner |-> o] :
        s \in DBShorts, l \in {LongWho, LongMeet}, t \in DBTimes,
        o \in {"foo@example.com"} }

DBBatches ==
    UNION { [ks -> 1..MaxBatchClicks] : ks \in SUBSET DBStatKeys \ {{}} }

\* the state no operation has produced yet
NoOp == [op |-> "none", status |-> 0, short |-> <<>>, link |-> NilLink,
         prev |-> <<>>, prevCreated |-> 0, valid |-> FALSE,
         nonOwner |-> FALSE, err |-> "nil"]

Idle == [pc |-> "idle", host |-> <<>>, path |-> <<>>, err |-> "nil"]

\* no call of expandLink is running
NoExpand == [pc |-> "idle"]

\* no handler and no flush under way, the stats mutex free
NoRun == [pc |-> "idle"]

InitDB ==
    /\ links = {}
    /\ statsRows = EmptyBag
    /\ clicks = EmptyMap
    /\ dirty = EmptyMap
    /\ phase = "start"
    /\ readonly = FALSE
    /\ allowUnknownUsers = FALSE
    /\ LastSnapshot = <<>>
    /\ last = NoOp
    /\ recorded = EmptyMap
    /\ accepted = EmptyMap
    /\ rl = Idle
    /\ ex = NoExpand
    /\ files = EmptyMap
    /\ run = NoRun

\* db.Save(link)
CallSave ==
    \E link \in DBLinks :
        /\ links' = Save(link)
        /\ last' = [NoOp EXCEPT !.op = "Save", !.short = link.Short,
                                !.link = link,
                                !.prev = LinkMapShort(linkID(link.Short)),
                                !.prevCreated =
                                    Load(link.Short).link.Created]
        /\ UNCHANGED <<files, run, ex, statsRows, clicks, dirty, phase, readonly,
                       allowUnknownUsers, LastSnapshot, recorded, accepted, rl>>

\* db.SaveStats(stats)
CallSaveStats ==
    \E stats \in DBBatches :
        /\ BagCardinality(statsRows) + Cardinality(DOMAIN stats) <= MaxStatsRows
        /\ statsRows' = SaveStats(stats)
        /\ recorded' = [k \in DOMAIN recorded \cup DOMAIN stats |->
                           Get(recorded, k) + Get(stats, k)]
        /\ last' = [NoOp EXCEPT !.op = "SaveStats"]
        /\ UNCHANGED <<files, run, ex, links, clicks, dirty, phase, readonly,
                       allowUnknownUsers, LastSnapshot, accepted, rl>>

NextDB == CallSave \/ CallSaveStats

SpecDB == InitDB /\ [][NextDB]_vars

-----------------------------------------------------------------------------
(* Claims about the store.                                                 *)

\* every spelling the store is asked about
Spellings == DBShorts \cup DBStatKeys \cup {<<"A">>, <<"a", "-">>}

\* the link Load returns for link after Save: the timestamps come back as
\* whole seconds
Stored(link) ==
    [link EXCEPT !.Created = FromUnix(Unix(link.Created)),
                 !.LastEdit = FromUnix(Unix(link.LastEdit))]

\* the clicks handed to SaveStats so far under the keys that normalize to id
RecordedFor(id) ==
    LET ks == {k \in DOMAIN recorded : linkID(k) = id}
    IN  SumOver(ks, recorded)

\* C2: after any sequence of Save operations, two short names with the same
\* linkID (they differ only by letter case or by dashes) load the same
\* result: both not-found, or both the same record.
C2_SameIDSameRecord ==
    \A a, b \in Spellings : linkID(a) = linkID(b) => Load(a) = Load(b)

\* C2's case: a link is stored and loaded through a spelling other than the
\* one it was saved under
C2_Witness ==
    \E a, b \in Spellings :
        /\ a # b
        /\ linkID(a) = linkID(b)
        /\ last.op = "Save" /\ last.short = a
        /\ Load(b).err = "nil" /\ Load(b).link.Short = a

\* C3 as stated: Save(L) then Load(L.Short) returns a record equal to L in
\* every field.
C3_RoundTripExact ==
    last.op = "Save" =>
        Load(last.link.Short) = [err |-> "nil", link |-> last.link]

\* C3 as amended: Save(L) then Load(L.Short) succeeds and returns L with
\* Short, Long and Owner unchanged and Created and LastEdit cut to whole
\* seconds, so a record equal to L when L's timestamps are whole seconds.
C3_RoundTripSeconds ==
    last.op = "Save" =>
        /\ Load(last.link.Short) = [err |-> "nil", link |-> Stored(last.link)]
        /\ (last.link.Created % SubSec = 0 /\ last.link.LastEdit % SubSec = 0
              => Load(last.link.Short).link = last.link)

\* C3's case: a link with a sub-second timestamp has been saved over a
\* record of the same ID
C3_Witness ==
    /\ last.op = "Save"
    /\ last.link.LastEdit % SubSec # 0
    /\ last.prev # <<>>
    /\ Load(last.link.Short).err = "nil"

\* C4: after any sequence of SaveStats batches, LoadStats returns for each
\* stored link the sum, over all batches, of the clicks recorded under any
\* key that normalizes to the link's ID.
C4_StatsAccumulate ==
    \A r \in links : \A m \in LoadStats :
        Get(m, r.Short) = RecordedFor(r.ID)

\* C4's case: a stored link whose clicks came in under two spellings, none
\* of them its own, and add up to 3 or more
C4_Witness ==
    \E r \in links :
        /\ r.Short = <<"B", "-", "c">>
        /\ Get(recorded, <<"b", "-", "c">>) >= 1
        /\ Get(recorded, <<"b", "c">>) >= 2
        /\ \A m \in LoadStats : Get(m, r.Short) >= 3

\* at most one row per normalized ID
UniqueID == \A r1, r2 \in links : r1.ID = r2.ID => r1 = r2

\* C6: the store holds at most one link per normalized ID in every state; a
\* Save on the ID of an existing link replaces that record, the stored Short
\* being the spelling that Save was given, and leaves every other record
\* alone.
C6_OnePerID ==
    /\ []UniqueID
    /\ [][ /\ last'.op = "Save" =>
                /\ \E r \in links' : r.ID = linkID(last'.short)
                                     /\ r.Short = last'.short
                /\ \A r \in links' : r.ID # linkID(last'.short) => r \in links
                /\ Cardinality(links') =
                     Cardinality(links) + (IF last'.prev = <<>> THEN 1 ELSE 0)
           /\ last'.op # "Save" => links' = links ]_vars

\* C6's case: a Save has replaced a record stored under another spelling of
\* the same ID
C6_Witness ==
    /\ last.op = "Save"
    /\ last.prev # <<>> /\ last.prev # last.short
    /\ \E r \in links : r.Short = last.short
    /\ Cardinality(links) = 2

-----------------------------------------------------------------------------
(* The server: Run() restores the snapshot, loads the stats and serves.    *)

\* largest total of stats.clicks up to which visits are served
MaxClicks == 2

hostname == "go"

Foo == "foo@example.com"
Bar == "bar@example.com"
userTaggedDevices == "tagged-devices"

\* what localClient.WhoIs tells about the peer of a request: a login
\* without or with the admin capability, or an error
WhoIsResults ==
    { [err |-> FALSE, login |-> Foo, isAdmin |-> FALSE],
      [err |-> FALSE, login |-> Bar, isAdmin |-> TRUE],
      [err |-> TRUE, login |-> "", isAdmin |-> FALSE] }

\* what localClient.Status tells: the users of the tailnet, with Bar and
\* after Bar has left
StatusResults ==
    { [err |-> FALSE, users |-> {Foo, Bar}],
      [err |-> FALSE, users |-> {Foo}] }

\* currentUser returns the Tailscale user associated with the request; if
\* the user can't be determined an error is returned unless the
\* -allow-unknown-users flag is set.
currentUser(whois) ==
    IF whois.err
    THEN [login |-> "", isAdmin |-> FALSE, err |-> ~allowUnknownUsers]
    ELSE [login |-> whois.login, isAdmin |-> whois.isAdmin, err |-> FALSE]

\* userExists returns whether a user exists with the specified login in the
\* current tailnet.
userExists(st, login) ==
    IF login = userTaggedDevices THEN [exists |-> FALSE, err |-> FALSE]
    ELSE IF st.err THEN [exists |-> FALSE, err |-> TRUE]
    ELSE [exists |-> login \in st.users \ {userTaggedDevices}, err |-> FALSE]

\* a canEditLink that lets every user edit every link
canEditAlways(st, ld, u) == ~readonly

\* a canEditLink that does not look at the read-only flag
canEditIgnoresReadonly(st, ld, u) ==
    IF ld.err # "nil" \/ ld.link.Owner = "" THEN TRUE
    ELSE IF u.isAdmin \/ ld.link.Owner = u.login THEN TRUE
    ELSE LET owned == userExists(st, ld.link.Owner)
         IN  ~owned.err /\ ~owned.exists

\* a canEditLink that takes a failed lookup of the owner for an owner who
\* has left
canEditOnLookupError(st, ld, u) ==
    IF readonly THEN FALSE
    ELSE IF ld.err # "nil" \/ ld.link.Owner = "" THEN TRUE
    ELSE IF u.isAdmin \/ ld.link.Owner = u.login THEN TRUE
    ELSE ~userExists(st, ld.link.Owner).exists

\* canEditLink returns whether the specified user has permission to edit
\* link.  ld is the result of Load: the link is nil when ld.err is set.
canEditLink(st, ld, u) ==
    IF readonly THEN FALSE
    ELSE IF ld.err # "nil" \/ ld.link.Owner = "" THEN TRUE
    ELSE IF u.isAdmin \/ ld.link.Owner = u.login THEN TRUE
    ELSE LET owned == userExists(st, ld.link.Owner)
         IN  ~owned.err /\ ~owned.exists

\* isRequestAuthorized: tokenOK is whether the request carries the
\* Sec-Golink header or a valid XSRF token
isRequestAuthorized(tokenOK) == allowUnknownUsers \/ tokenOK

WordChars == {"a", "b", "c", "A", "B", "C"}

\* reShortName = ^\w[\w\-\.]*$
reShortName(short) ==
    /\ Len(short) >= 1
    /\ short[1] \in WordChars
    /\ \A i \in 2..Len(short) : short[i] \in WordChars \cup {"-", "."}

\* the value of time.Now() in ticks, not on a whole second
Times == {SubSec + 1}

\* the forms posted to serveSave: short, long and owner
SaveForms ==
    { [short |-> <<"a">>, long |-> LongWho, owner |-> ""],
      [short |-> <<"A">>, long |-> LongMeet, owner |-> ""],
      [short |-> <<"a">>, long |-> LongWho, owner |-> Bar],
      [short |-> <<"a">>, long |-> <<>>, owner |-> ""],
      [short |-> <<>>, long |-> LongWho, owner |-> ""],
      [short |-> <<"a", " ">>, long |-> LongWho, owner |-> ""],
      [short |-> <<"a">>, long |-> <<"http://", "who", "/", TmplOpen>>,
       owner |-> ""] }

\* the form passes the checks of serveSave on short and long
validSave(form) ==
    /\ form.short # <<>>
    /\ form.long # <<>>
    /\ reShortName(form.short)
    /\ TemplateParses(form.long)

\* the request for short comes from a user who is no admin, and the link of
\* short is stored with an Owner who is another login and is a user of the
\* tailnet
nonOwner(short, whois, st) ==
    LET cu == currentUser(whois)
        ld == Load(short)
    IN  /\ short # <<>>
        /\ ld.err = "nil"
        /\ ~cu.err
        /\ ~cu.isAdmin
        /\ ld.link.Owner # cu.login
        /\ userExists(st, ld.link.Owner).exists

\* the response of serveSave and the Links table it leaves
serveSaveResult(form, whois, tokenOK, st, now, fault) ==
    LET cu == currentUser(whois)
        ld == LoadOrFail(links, form.short, fault)
        exists == IF form.owner # "" THEN userExists(st, form.owner).exists
                  ELSE TRUE
        owner == IF form.owner # "" THEN form.owner ELSE cu.login
        base == IF ld.err # "nil"
                THEN [NilLink EXCEPT !.Short = form.short, !.Created = now]
                ELSE ld.link
        link == [base EXCEPT !.Short = form.short, !.Long = form.long,
                             !.LastEdit = now, !.Owner = owner]
        reject(code) ==
            [status |-> code, links |-> links,
             err |-> IF code = 500 /\ ~cu.err THEN ld.err ELSE "nil"]
    IN  IF readonly THEN reject(405)
        ELSE IF form.short = <<>> \/ form.long = <<>> THEN reject(400)
        ELSE IF ~reShortName(form.short) THEN reject(400)
        ELSE IF ~TemplateParses(form.long) THEN reject(400)
        ELSE IF cu.err THEN reject(500)
        ELSE IF ld.err \notin {"nil", "ErrNotExist"} THEN reject(500)
        ELSE IF ~canEditLink(st, ld, cu) THEN reject(403)
        ELSE IF ~isRequestAuthorized(tokenOK) THEN reject(400)
        ELSE IF ~exists THEN reject(400)
        ELSE [status |-> 200, links |-> Save(link), err |-> "nil"]

\* serveSave handles requests to save or update a Link.
serveSave(form, whois, tokenOK, st, now, fault) ==
    /\ phase = "serving"
    /\ LET res == serveSaveResult(form, whois, tokenOK, st, now, fault)
       IN  /\ links' = res.links
           /\ last' = [NoOp EXCEPT
                          !.op = "serveSave", !.status = res.status,
                          !.err = res.err,
                          !.valid = validSave(form),
                          !.nonOwner = nonOwner(form.short, whois, st)]
           /\ accepted' = IF res.status = 200 /\ Load(form.short).err # "nil"
                          THEN Put(accepted, linkID(form.short), 0)
                          ELSE accepted
    /\ UNCHANGED <<files, run, ex, statsRows, clicks, dirty, phase, readonly,
                   allowUnknownUsers, LastSnapshot, recorded, rl>>

\* the short names of delete requests
DeleteShorts == { <<"a">>, <<"A">>, <<"b">>, <<>> }

\* the status of a request whose handler panicked: the goroutine of the
\* connection unwinds and no response is written
Panicked == 0

\* the response of serveDelete, and whether it went on to delete the link.
\* After a Load that failed with another error than fs.ErrNotExist the link
\* is nil: canEditLink grants a nil link, and link.Short in the check of
\* the XSRF token dereferences it.
serveDeleteResult(short, whois, xsrfOK, st, fault) ==
    LET cu == currentUser(whois)
        ld == LoadOrFail(links, short, fault)
    IN  IF readonly THEN 405
        ELSE IF short = <<>> THEN 400
        ELSE IF cu.err THEN 500
        ELSE IF ld.err = "ErrNotExist" THEN 404
        ELSE IF ~canEditLink(st, ld, cu) THEN 403
        ELSE IF ld.err # "nil" THEN Panicked
        ELSE IF ~xsrfOK THEN 400
        ELSE 200

\* deleteLinkStats removes the link stats from memory, and from the store.
deleteLinkStats(link) ==
    /\ clicks' = Del(clicks, link.Short)
    /\ dirty' = Del(dirty, link.Short)
    /\ statsRows' = DeleteStats(link.Short)

serveDelete(short, whois, xsrfOK, st, fault) ==
    /\ phase = "serving"
    /\ LET status == serveDeleteResult(short, whois, xsrfOK, st, fault)
       IN  /\ last' = [NoOp EXCEPT
                          !.op = "serveDelete", !.status = status,
                          !.valid = short # <<>>,
                          !.nonOwner = nonOwner(short, whois, st),
                          !.err = IF status = Panicked THEN "panic"
                                  ELSE "nil"]
           /\ IF status = 200
              THEN /\ links' = DeleteFrom(links, short)
                   /\ deleteLinkStats(Load(short).link)
                   /\ accepted' = Del(accepted, linkID(short))
              ELSE UNCHANGED <<links, clicks, dirty, statsRows, accepted>>
    /\ UNCHANGED <<files, run, ex, phase, readonly, allowUnknownUsers,
                   LastSnapshot, recorded, rl>>

\* a line of a snapshot that json.Unmarshal rejects
BadLine == [ok |-> FALSE, link |-> NilLink]

\* a line of a snapshot that encodes link
GoodLine(link) == [ok |-> TRUE, link |-> link]

RECURSIVE RestoreAlways(_, _)
\* a restore that saves every line, stored or not
RestoreAlways(rows, lines) ==
    IF lines = <<>> THEN rows
    ELSE LET link == Head(lines).link
         IN  IF ~Head(lines).ok THEN rows
             ELSE IF link.Short = <<>> THEN RestoreAlways(rows, Tail(lines))
             ELSE RestoreAlways(SaveTo(rows, link), Tail(lines))

RECURSIVE RestoreLines(_, _)
\* the loop of restoreLastSnapshot over the lines still to scan: the table
\* it leaves.  A line that does not unmarshal ends the restore; a link
\* without Short, and a link whose Load succeeds, is skipped.
RestoreLines(rows, lines) ==
    IF lines = <<>> THEN rows
    ELSE LET link == Head(lines).link
         IN  IF ~Head(lines).ok THEN rows
             ELSE IF link.Short = <<>> THEN RestoreLines(rows, Tail(lines))
             ELSE IF LoadFrom(rows, link.Short).err = "nil"
                  THEN RestoreLines(rows, Tail(lines))
             ELSE RestoreLines(SaveTo(rows, link), Tail(lines))

restoreLastSnapshot ==
    /\ phase = "start"
    /\ links' = RestoreLines(links, LastSnapshot)
    /\ phase' = "restored"
    /\ last' = [NoOp EXCEPT !.op = "restoreLastSnapshot"]
    /\ UNCHANGED <<files, run, ex, statsRows, clicks, dirty, readonly, allowUnknownUsers,
                   LastSnapshot, recorded, accepted, rl>>

\* initStats initializes the in-memory stats counter with counts from db.
initStats ==
    /\ phase = "restored"
    /\ clicks' \in LoadStats
    /\ dirty' = EmptyMap
    /\ phase' = "serving"
    /\ accepted' = [id \in {r.ID : r \in links} |->
                        Get(clicks', LinkMapShort(id))]
    /\ last' = [NoOp EXCEPT !.op = "initStats"]
    /\ UNCHANGED <<files, run, ex, links, statsRows, readonly, allowUnknownUsers,
                   LastSnapshot, recorded, rl>>

\* flushStats writes any pending link stats to db.
flushStats ==
    /\ phase = "serving"
    /\ IF DOMAIN dirty = {}
       THEN UNCHANGED <<statsRows, dirty>>
       ELSE /\ statsRows' = SaveStats(dirty)
            /\ dirty' = EmptyMap
    /\ last' = [NoOp EXCEPT !.op = "flushStats"]
    /\ UNCHANGED <<files, run, ex, links, clicks, phase, readonly, allowUnknownUsers,
                   LastSnapshot, recorded, accepted, rl>>

\* the sum of the counts of a ClickStats map
Total(m) == SumOver(DOMAIN m, m)

\* the request paths of visits: spellings of links, a trailing period, the
\* detail suffix, a remainder, and a name nobody saved
VisitPaths ==
    { <<"/", "a">>, <<"/", "A">>, <<"/", "b">>, <<"/", "a", ".">>,
      <<"/", "a", "+">>, <<"/", "b", "/", "c">>, <<"/", "c">> }

Punctuation == {".", ",", "(", ")", "[", "]", "{", "}"}

\* the link serveGo serves for a short name: Load, and on not-found a second
\* Load with the trailing punctuation trimmed
serveGoLoad(short, fault) ==
    LET ld == LoadOrFail(links, short, fault)
        s == TrimRight(short, Punctuation)
    IN  IF ld.err = "ErrNotExist" /\ short # s
        THEN LoadOrFail(links, s, fault)
        ELSE ld

\* a response that does not tell errNoUser from the other errors
serveGoResponseNo401(target) ==
    IF target.err = "nil"
    THEN [status |-> 302, Location |-> <<"/">>]
    ELSE [status |-> 500, Location |-> <<>>]

\* the response of serveGo to the result of expandLink: 302 with the URL
\* as Location, 401 when the link needs a user and there is none, else 500
serveGoResponse(target) ==
    IF target.err = "nil"
    THEN [status |-> 302, Location |-> URLString(target.url)]
    ELSE IF target.err = "errNoUser"
    THEN [status |-> 401, Location |-> <<>>]
    ELSE [status |-> 500, Location |-> <<>>]

\* serveGo for a path other than "/": the status of the response, and the
\* count of the served link's Short in stats.clicks and stats.dirty
serveGo(path, whois, fault) ==
    /\ phase = "serving"
    /\ Total(clicks) < MaxClicks
    /\ LET cut == Cut(TrimPrefix(path, <<"/">>), "/")
           short == cut.before
           ld == serveGoLoad(short, fault)
           cu == currentUser(whois)
           target == expandLink(ld.link.Long,
                                [Path |-> cut.after, user |-> cu.login,
                                 query |-> <<>>])
       IN  IF HasSuffix(short, "+")
           THEN /\ last' = [NoOp EXCEPT !.op = "serveGo", !.status = 302]
                /\ UNCHANGED <<clicks, dirty, accepted>>
           ELSE IF ld.err = "ErrNotExist"
           THEN /\ last' = [NoOp EXCEPT !.op = "serveGo", !.status = 404,
                                        !.err = ld.err]
                /\ UNCHANGED <<clicks, dirty, accepted>>
           ELSE IF ld.err # "nil"
           THEN /\ last' = [NoOp EXCEPT !.op = "serveGo", !.status = 500,
                                        !.err = ld.err]
                /\ UNCHANGED <<clicks, dirty, accepted>>
           ELSE /\ clicks' = Put(clicks, ld.link.Short,
                                 Get(clicks, ld.link.Short) + 1)
                /\ dirty' = Put(dirty, ld.link.Short,
                                Get(dirty, ld.link.Short) + 1)
                /\ accepted' = Put(accepted, linkID(ld.link.Short),
                                   Get(accepted, linkID(ld.link.Short)) + 1)
                /\ last' = [NoOp EXCEPT
                              !.op = "serveGo",
                              !.status = serveGoResponse(target).status]
    /\ UNCHANGED <<files, run, ex, links, statsRows, phase, readonly, allowUnknownUsers,
                   LastSnapshot, recorded, rl>>

-----------------------------------------------------------------------------
(* The server from start to serving.                                       *)

\* the links of the databases and snapshots a server starts with
LinkA == [Short |-> <<"a">>, Long |-> LongWho, Created |-> 0,
          LastEdit |-> 1, Owner |-> Foo]
LinkB == [Short |-> <<"b">>, Long |-> <<"http://", "who", "/", TmplUser>>,
          Created |-> 0, LastEdit |-> 1, Owner |-> Bar]

\* the databases a server is started on: a fresh one, and one that holds a
\* link with flushed clicks
StartDBs ==
    { [links |-> {}, stats |-> EmptyBag],
      [links |-> {LinkRow(LinkA)},
       stats |-> SetToBag({[ID |-> linkID(<<"a">>), Clicks |-> 1]})] }

\* the snapshot the server is built with
ServerSnapshot == <<GoodLine(LinkB)>>

Init ==
    /\ \E d \in StartDBs : links = d.links /\ statsRows = d.stats
    /\ clicks = EmptyMap
    /\ dirty = EmptyMap
    /\ phase = "start"
    /\ readonly \in BOOLEAN
    /\ allowUnknownUsers \in BOOLEAN
    /\ LastSnapshot = ServerSnapshot
    /\ last = NoOp
    /\ recorded = EmptyMap
    /\ accepted = EmptyMap
    /\ rl = Idle
    /\ ex = NoExpand
    /\ files = EmptyMap
    /\ run = NoRun

\* what surrounds a visit: who asks, and whether the database fails; it
\* fails for one of the users
VisitEnvs ==
    { [whois |-> w, fault |-> FALSE] : w \in WhoIsResults } \cup
    { [whois |-> w, fault |-> TRUE] : w \in {x \in WhoIsResults : x.login = Foo} }

\* what surrounds a save request: who asks, with or without token, in which
\* tailnet, and whether the database fails; one of the users comes without
\* token, and the database fails for one of them in the full tailnet
SaveEnvs ==
    { [whois |-> w, tokenOK |-> TRUE, st |-> u, fault |-> FALSE] :
        w \in WhoIsResults, u \in StatusResults } \cup
    { [whois |-> w, tokenOK |-> FALSE, st |-> u, fault |-> FALSE] :
        w \in {x \in WhoIsResults : x.login = Foo}, u \in StatusResults } \cup
    { [whois |-> w, tokenOK |-> TRUE, st |-> u, fault |-> TRUE] :
        w \in {x \in WhoIsResults : x.login = Foo},
        u \in {x \in StatusResults : Bar \in x.users} }

\* the save requests: every form that passes the checks of short and long
\* in every surrounding, and the other forms with a token and without
\* failure of the database
SaveRequests ==
    { [form |-> f, env |-> e] :
        f \in {x \in SaveForms : validSave(x)}, e \in SaveEnvs } \cup
    { [form |-> f, env |-> e] :
        f \in {x \in SaveForms : ~validSave(x)},
        e \in {x \in SaveEnvs : x.tokenOK /\ ~x.fault} }

\* what surrounds a delete request: who asks, with or without token, in
\* which tailnet, and whether the database fails; one of the users comes
\* without token, and the database fails for one of them in the full tailnet
DeleteEnvs ==
    { [whois |-> w, xsrfOK |-> TRUE, st |-> u, fault |-> FALSE] :
        w \in WhoIsResults, u \in StatusResults } \cup
    { [whois |-> w, xsrfOK |-> FALSE, st |-> u, fault |-> FALSE] :
        w \in {x \in WhoIsResults : x.login = Foo}, u \in StatusResults } \cup
    { [whois |-> w, xsrfOK |-> TRUE, st |-> u, fault |-> TRUE] :
        w \in {x \in WhoIsResults : x.login = Foo},
        u \in {x \in StatusResults : Bar \in x.users} }

Next ==
    \/ restoreLastSnapshot
    \/ initStats
    \/ flushStats
    \/ \E path \in VisitPaths, e \in VisitEnvs :
          serveGo(path, e.whois, e.fault)
    \/ \E r \in SaveRequests, now \in Times :
          serveSave(r.form, r.env.whois, r.env.tokenOK, r.env.st, now,
                    r.env.fault)
    \/ \E short \in DeleteShorts, e \in DeleteEnvs :
          serveDelete(short, e.whois, e.xsrfOK, e.st, e.fault)

Spec == Init /\ [][Next]_vars

-----------------------------------------------------------------------------
(* Startup alone: restoreLastSnapshot and initStats on any database and    *)
(* any snapshot.                                                           *)

\* the largest number of lines of a snapshot
MaxSnapshot == 3

Pre == "pre@example.com"

\* rows a database holds before the restore
PreRows ==
    { LinkRow([Short |-> <<"a">>, Long |-> LongMeet, Created |-> SubSec,
               LastEdit |-> SubSec, Owner |-> Pre]),
      LinkRow([Short |-> <<"B">>, Long |-> LongMeet, Created |-> SubSec,
               LastEdit |-> SubSec, Owner |-> Pre]) }

\* the lines of snapshots: spellings of two IDs, a link without Short, and
\* a line that is not JSON
SnapLines ==
    { GoodLine([Short |-> sh, Long |-> LongWho, Created |-> 1,
                LastEdit |-> SubSec + 1, Owner |-> Foo]) :
        sh \in { <<"a">>, <<"A">>, <<"b">>, <<>> } } \cup {BadLine}

SnapshotsOfLen(n) == [1..n -> SnapLines]

InitRestore ==
    /\ links \in SUBSET PreRows
    /\ statsRows \in { EmptyBag,
                       SetToBag({[ID |-> linkID(<<"a">>), Clicks |-> 1]}) }
    /\ clicks = EmptyMap
    /\ dirty = EmptyMap
    /\ phase = "start"
    /\ readonly = FALSE
    /\ allowUnknownUsers = FALSE
    /\ \E n \in 0..MaxSnapshot : LastSnapshot \in SnapshotsOfLen(n)
    /\ last = NoOp
    /\ recorded = EmptyMap
    /\ accepted = EmptyMap
    /\ rl = Idle
    /\ ex = NoExpand
    /\ files = EmptyMap
    /\ run = NoRun

NextRestore == restoreLastSnapshot \/ initStats

SpecRestore == InitRestore /\ [][NextRestore]_vars

-----------------------------------------------------------------------------
(* golink run with a link on the command line: resolve and exit.           *)

\* the Long values of the stores resolveLink is run on: links to this
\* service, by path, by host and by a relative reference with and without
\* the hostname in front, and links away from it.  <<"go", "b">> is the
\* text "gob": a relative reference to the short name gob.
ResolveLongs ==
    { <<"/", "a">>, <<"/", "b">>, <<"http://", hostname, "/", "b">>,
      <<"go", "/", "a", "/">>, <<"go", "b">>, LongWho, LongMeet,
      <<"http://", "who", "/", TmplUser>> }

\* the Long values of the link b: a link back to a, links away from the
\* service, and a link that needs a user
ResolveLongsB ==
    { <<"/", "a">>, <<"http://", hostname, "/", "b">>, LongWho, LongMeet,
      <<"http://", "who", "/", TmplUser>> }

\* the stores: a and b each absent or with one of their Long values, and
\* gob absent or a link away from the service
ResolveStores ==
    { { LinkRow([NilLink EXCEPT !.Short = <<"a">>, !.Long = la]) : la \in A }
      \cup
      { LinkRow([NilLink EXCEPT !.Short = <<"b">>, !.Long = lb]) : lb \in B }
      \cup
      { LinkRow([NilLink EXCEPT !.Short = <<"go", "b">>, !.Long = lg]) :
            lg \in G } :
        A \in { {l} : l \in ResolveLongs } \cup { {} },
        B \in { {l} : l \in ResolveLongsB } \cup { {} },
        G \in { {LongWho}, {} } }

\* url.Parse of the command line argument
ResolveArgs ==
    { ParseURL(t) : t \in { <<"a">>, <<"go", "/", "a">>,
                            <<"http://", hostname, "/", "a">>,
                            <<"a", "/", "c">>, <<"b">>, <<"b", "/", "c">>,
                            <<"c">> } }

InitResolve ==
    /\ links \in ResolveStores
    /\ statsRows = EmptyBag
    /\ clicks = EmptyMap
    /\ dirty = EmptyMap
    /\ phase = "resolve"
    /\ readonly = FALSE
    /\ allowUnknownUsers = FALSE
    /\ LastSnapshot = <<>>
    /\ last = NoOp
    /\ recorded = EmptyMap
    /\ accepted = EmptyMap
    /\ ex = NoExpand
    /\ files = EmptyMap
    /\ run = NoRun
    /\ \E u \in ResolveArgs :
          rl = [pc |-> "call", host |-> u.Host, path |-> u.Path,
                err |-> "nil", arg |-> u, from |-> u, short |-> <<>>,
                rem |-> <<>>, loadErr |-> "nil", aliased |-> FALSE]

\* an expansion is resolved again only when it has no host
isAliasNoHost(host) == host = ""

\* the expansion that resolveLink resolves again (dst.Host == "" ||
\* dst.Host == *hostname)
isAlias(host) == host = "" \/ host = hostname

\* a Load error returned with the URL the call was made on
loadFailedKeepURL(r, err) == [r EXCEPT !.pc = "done", !.err = err]

\* return nil, err after db.Load
loadFailed(r, err) ==
    [r EXCEPT !.pc = "done", !.host = "", !.path = <<>>, !.err = err]

\* resolveLink up to its call of expandLink, on the URL rl.host, rl.path:
\* the short name is cut off the path and loaded; a Load error is returned,
\* else the link is expanded with the remainder as Path
resolveLinkExpand ==
    /\ phase = "resolve"
    /\ rl.pc = "call"
    /\ \E fault \in BOOLEAN :
       \E path \in {IF rl.host = "" THEN TrimPrefix(rl.path, <<hostname>>)
                     ELSE rl.path} :
       \E cut \in {Cut(TrimPrefix(path, <<"/">>), "/")} :
       \E l \in {LoadOrFail(links, cut.before, fault)} :
       \E dst \in {expandLink(l.link.Long,
                              [Path |-> cut.after, user |-> "", query |-> <<>>])} :
       \E r \in {[rl EXCEPT !.from = [Host |-> rl.host, Path |-> rl.path],
                            !.short = cut.before, !.rem = cut.after,
                            !.loadErr = l.err]} :
          rl' = IF l.err # "nil"
                THEN loadFailed(r, l.err)
                ELSE [r EXCEPT !.pc = "expanded", !.host = dst.url.Host,
                               !.path = dst.url.Path, !.err = dst.err]
    /\ UNCHANGED <<files, run, ex, links, statsRows, clicks, dirty, phase, readonly,
                   allowUnknownUsers, LastSnapshot, last, recorded,
                   accepted>>

\* resolveLink after expandLink: an expansion without host, or with the
\* host of the service, is resolved by a call of resolveLink, whose result
\* is returned as it is; any other expansion, and an error, is returned.
\* The callers only pass the result on, so the frames that wait are not
\* part of the state.
resolveLinkRecurse ==
    /\ phase = "resolve"
    /\ rl.pc = "expanded"
    /\ rl' = IF rl.err = "nil" /\ isAlias(rl.host)
             THEN [rl EXCEPT !.pc = "call", !.aliased = TRUE]
             ELSE [rl EXCEPT !.pc = "done"]
    /\ UNCHANGED <<files, run, ex, links, statsRows, clicks, dirty, phase, readonly,
                   allowUnknownUsers, LastSnapshot, last, recorded,
                   accepted>>

resolveLink == resolveLinkExpand \/ resolveLinkRecurse

NextResolve == resolveLink

SpecResolve == InitResolve /\ [][NextResolve]_vars /\ WF_vars(NextResolve)

-----------------------------------------------------------------------------
(* Claims about the server.                                                *)

\* the total stats.clicks holds for the normalized ID id, over every
\* spelling it is keyed by
MemTotal(id) ==
    LET ks == {k \in DOMAIN clicks : linkID(k) = id}
    IN  SumOver(ks, clicks)

\* C1: resolveLink terminates for every link store and every input link,
\* also when a chain of links that expand to this service leads back to an
\* earlier short name: every run of golink on a link reaches its return.
C1_Terminates == <>(rl.pc = "done")

\* C8: every key of every map LoadStats can return is the Short of a stored
\* link.
C8_KeysAreShorts ==
    \A m \in LoadStats : \A k \in DOMAIN m : \E r \in links : r.Short = k

\* C9: while the server serves, for every stored link the click total
\* recorded in memory for its normalized ID equals the count loaded at
\* startup plus one for each visit served since the link was created.
C9_TotalIsAccepted ==
    phase = "serving" =>
        \A r \in links : MemTotal(r.ID) = Get(accepted, r.ID)

\* the step takes the link of row r out of the store
Deletes(r) == \A r2 \in links' : r2.ID # r.ID

\* C10: from one state to the next, the click total of a stored link, in
\* stats.clicks and in what LoadStats returns, does not decrease while the
\* link stays stored, and is zero after a step that deletes the link.
C10_MonotonicUntilDeleted ==
    [][\A r \in links :
          IF Deletes(r)
          THEN /\ MemTotal(r.ID)' = 0
               /\ SumClicks(r.ID)' = 0
          ELSE /\ MemTotal(r.ID)' >= MemTotal(r.ID)
               /\ SumClicks(r.ID)' >= SumClicks(r.ID)]_vars

\* the step is a save or delete request of a non-owner, as recorded in last
NonOwnerRequest ==
    /\ last'.op \in {"serveSave", "serveDelete"}
    /\ last'.nonOwner

\* C5 as stated: a save or delete request from a non-admin user whose login
\* differs from the Owner of an existing link, that Owner being a user of
\* the tailnet, is answered 403 and leaves the links and the click stats as
\* they were.
C5_NonOwnerRejected ==
    [][NonOwnerRequest =>
          /\ last'.status = 403
          /\ UNCHANGED <<links, statsRows, clicks, dirty>>]_vars

\* C5 on a server that is not read-only, for a request that passes the
\* checks on its short and long fields: the request of such a non-owner is
\* answered 403; when the database fails to load the link, a save request
\* is answered 500 and the handler of a delete request panics without an
\* answer; and whatever the answer, the request of a non-owner leaves the
\* links and the click stats as they were.
C5_NonOwnerRejectedWhenWritable ==
    [][NonOwnerRequest =>
          /\ (~readonly /\ last'.valid =>
                 CASE last'.err = "nil"   -> last'.status = 403
                   [] last'.err = "panic" -> /\ last'.op = "serveDelete"
                                             /\ last'.status = Panicked
                   [] OTHER               -> /\ last'.op = "serveSave"
                                             /\ last'.status = 500)
          /\ UNCHANGED <<links, statsRows, clicks, dirty>>]_vars

\* a valid save by an identified non-owner on a writable server has been
\* answered 403
C5_Witness ==
    /\ ~readonly
    /\ ~allowUnknownUsers
    /\ last.op = "serveSave"
    /\ last.nonOwner
    /\ last.valid
    /\ last.status = 403

\* line i of the snapshot is reached by the scan and holds a link to restore
Restorable(i) ==
    /\ \A j \in 1..i : LastSnapshot[j].ok
    /\ LastSnapshot[i].link.Short # <<>>

\* line i is the first line of the snapshot that holds a link of ID id
FirstOfID(i, id) ==
    /\ Restorable(i)
    /\ linkID(LastSnapshot[i].link.Short) = id
    /\ \A j \in 1..(i - 1) :
          \/ LastSnapshot[j].link.Short = <<>>
          \/ linkID(LastSnapshot[j].link.Short) # id

\* C7: restoreLastSnapshot keeps every row the table held, and a row it adds
\* has an ID no row had before and is the row of the first snapshot line of
\* that ID.
C7_RestoreOnlyMissing ==
    [][phase = "start" /\ phase' = "restored" =>
          /\ links \subseteq links'
          /\ \A r \in links' \ links :
                /\ \A q \in links : q.ID # r.ID
                /\ \E i \in DOMAIN LastSnapshot :
                      /\ FirstOfID(i, r.ID)
                      /\ r = LinkRow(LastSnapshot[i].link)]_vars

\* after a restore: two lines of the snapshot are spellings of one ID and
\* the table holds the first; another line has the ID of a row that was
\* stored before, and the table still holds that row
C7_Witness ==
    /\ phase = "restored"
    /\ \E i, j \in DOMAIN LastSnapshot :
          /\ i < j
          /\ FirstOfID(i, linkID(LastSnapshot[j].link.Short))
          /\ Restorable(j)
          /\ LastSnapshot[i].link.Short # LastSnapshot[j].link.Short
          /\ LinkRow(LastSnapshot[i].link) \in links
    /\ \E k \in DOMAIN LastSnapshot, r \in links :
          /\ Restorable(k)
          /\ linkID(LastSnapshot[k].link.Short) = r.ID
          /\ r.Owner = Pre

\* the short names of the requests the server is sent that spell the ID id
SpellingsOf(id) ==
    {s \in DeleteShorts \cup {f.short : f \in SaveForms} :
        s # <<>> /\ linkID(s) = id}

\* C11: after a step in which serveDelete deletes a link, Load of every
\* spelling of its short name returns not-found, stats.clicks and stats.dirty
\* hold no key of the link's ID, and the Stats table, from which LoadStats
\* builds its result, holds no row of it.
C11_DeleteRemovesAll ==
    [][last'.op = "serveDelete" /\ last'.status = 200 =>
          \A r \in links :
             Deletes(r) =>
                /\ \A s \in SpellingsOf(r.ID) :
                      LoadFrom(links', s).err = "ErrNotExist"
                /\ \A k \in DOMAIN clicks' \cup DOMAIN dirty' :
                      linkID(k) # r.ID
                /\ r.ID \notin StatsIDs']_vars

-----------------------------------------------------------------------------
(* More claims about the store.                                            *)

\* the row the table rows holds for the ID of short
RowIn(rows, short) == CHOOSE r \in rows : r.ID = linkID(short)

-----------------------------------------------------------------------------
(* Claims about errors of the store seen by the server.                    *)

\* the short names Load is called with by the requests
RequestShorts ==
    (DeleteShorts \cup {f.short : f \in SaveForms} \cup
     {Cut(TrimPrefix(p, <<"/">>), "/").before : p \in VisitPaths}) \ {<<>>}

\* C13: Load of a short name without a record under its ID returns
\* fs.ErrNotExist and no link; a failure of the database is returned as an
\* error that is not fs.ErrNotExist, with no link; and the callers tell the
\* two apart: serveGo answers 404 for the first and 500 for the second,
\* serveSave answers 500 for the second and goes on to create for the first.
C13_NotFoundIsDistinct ==
    /\ \A short \in RequestShorts, fault \in BOOLEAN :
          LET res == LoadOrFail(links, short, fault)
              stored == \E r \in links : r.ID = linkID(short)
          IN  /\ res.err = "ErrNotExist" <=> (~fault /\ ~stored)
              /\ res.err = "nil" <=> (~fault /\ stored)
              /\ res.err # "nil" => res.link = NilLink
    /\ last.op = "serveGo" =>
          /\ last.status = 404 <=> last.err = "ErrNotExist"
          /\ last.err = ErrIO => last.status = 500
    /\ last.op = "serveSave" /\ last.err = ErrIO => last.status = 500
    /\ last.op = "serveSave" => last.err # "ErrNotExist"

\* a visit has been answered 500 because the database failed, on a server
\* whose store holds links
C13_Witness ==
    /\ last.op = "serveGo"
    /\ last.err = ErrIO
    /\ last.status = 500
    /\ links # {}
    /\ \E short \in RequestShorts : Load(short).err = "ErrNotExist"

-----------------------------------------------------------------------------
(* Claims about resolveLink.                                               *)

\* the short name and the remainder a URL of this service refers to:
\* go/name/rest, /name/rest, name/rest and http://go/name/rest
ShortNameReference(u) ==
    LET p == IF u.Host = "" /\ HasPrefix(u.Path, <<hostname, "/">>)
             THEN TrimPrefix(u.Path, <<hostname>>)
             ELSE u.Path
    IN  Cut(TrimPrefix(p, <<"/">>), "/")

\* resolveLink of a/c has returned, on a store where a is an alias of b (by
\* path or by host) and b a link away from the service, and no Load failed
AliasResolved ==
    /\ rl.pc = "done"
    /\ rl.arg = ParseURL(<<"a", "/", "c">>)
    /\ rl.loadErr = "nil"
    /\ Load(<<"a">>).link.Long \in
          { <<"/", "b">>, <<"http://", hostname, "/", "b">> }
    /\ Load(<<"b">>).link.Long = LongMeet

\* resolveLink of b/c has returned on a store where b is a link away from
\* the service, and no Load failed
DirectResolved ==
    /\ rl.pc = "done"
    /\ rl.arg = ParseURL(<<"b", "/", "c">>)
    /\ rl.loadErr = "nil"
    /\ Load(<<"b">>).link.Long = LongMeet

\* the URL https://meet.google.com/lookup/c
IsMeetC ==
    /\ rl.err = "nil"
    /\ rl.host = "meet.google.com"
    /\ rl.path = <<"/", "lookup", "/", "c">>

\* with a -> /b or a -> http://go/b, and b -> https://meet.google.com/lookup/,
\* a/c resolves to https://meet.google.com/lookup/c, as b/c does
C14_Example == (AliasResolved \/ DirectResolved) => IsMeetC

\* every call resolveLink makes on an expansion loads the short name the
\* expansion refers to, with the remainder of the expansion
C14_HopLoadsReference ==
    rl.aliased /\ rl.pc \in {"expanded", "done"} =>
        /\ rl.short = ShortNameReference(rl.from).before
        /\ rl.rem = ShortNameReference(rl.from).after

\* C14: an expansion with an empty host or the hostname of the service is
\* resolved again as a reference to a short name, and the remainder is
\* carried through every hop: with chat -> /meet (or m -> http://go/meet)
\* and meet -> https://meet.google.com/lookup/, chat/foo resolves to
\* https://meet.google.com/lookup/foo, as meet/foo does.
C14_AliasCarriesRemainder == C14_HopLoadsReference /\ C14_Example

\* C15: a URL resolveLink returns without error has a host, and the host is
\* not the hostname of the service.
C15_ResultIsExternal ==
    rl.pc = "done" /\ rl.err = "nil" => rl.host # "" /\ rl.host # hostname

\* resolveLink has returned a URL after resolving an expansion with the
\* hostname of the service
C15_Witness ==
    /\ rl.pc = "done"
    /\ rl.err = "nil"
    /\ rl.aliased
    /\ rl.from.Host = hostname
    /\ rl.host # ""

\* C16: when Load fails for a short name of the chain, resolveLink returns
\* that error and no URL, also when earlier hops have been expanded.
C16_LoadFailureFailsAll ==
    rl.pc \in {"expanded", "done"} /\ rl.loadErr # "nil" =>
        /\ rl.pc = "done"
        /\ rl.err = rl.loadErr
        /\ rl.host = ""
        /\ rl.path = <<>>

\* resolveLink has returned the not-found error of a short name that an
\* alias refers to
C16_Witness ==
    /\ rl.pc = "done"
    /\ rl.aliased
    /\ rl.loadErr = "ErrNotExist"
    /\ rl.err = "ErrNotExist"
    /\ rl.from.Path # <<>>

-----------------------------------------------------------------------------
(* expandLink on its own: every link of a small set expanded for every     *)
(* request of a small set, and answered as serveGo answers.                *)

\* the Long values expanded: without template, with and without a final
\* slash and a query; and with template
ExpandLongs ==
    { LongWho, <<"http://", "who">>, <<"/", "rel">>,
      <<"/", "rel", "?", "a=1">>, <<"/", "rel", "?", "b=2">>,
      <<"/", "rel", "?", "q=a;b">>,
      <<"/", "rel", "?", "a=1", "&", "q=a;b">>,
      <<"/", "rel", TmplWithPath, "?", "a=1">>,
      <<"http://", "who", "/", TmplUser>>,
      <<"/", "who", "/", TmplUser, "/", TmplPath>>,
      <<"/", "rel", "/", TmplInvalid>>,
      <<"/", "rel", "/", TmplOpen>> }

\* the remainders of the request path: none, one and two segments, one that
\* starts with a slash (GET /who//x) and one with a percent sign
\* (GET /who/%25)
ExpandPaths ==
    { <<>>, <<"p">>, <<"p", "/", "r">>, <<"/", "x">>, <<BadEscape>> }

\* r.URL.Query(): the settings of the request
ExpandQueries ==
    { <<>>, <<<<"a=2">>>>, <<<<"b=2">>>>, <<<<"a=2">>, <<"b=2">>>> }

ExpandEnvs ==
    { [Path |-> p, user |-> u, query |-> q] :
        p \in ExpandPaths, u \in {"", Foo}, q \in ExpandQueries }

InitExpand ==
    /\ links = {}
    /\ statsRows = EmptyBag
    /\ clicks = EmptyMap
    /\ dirty = EmptyMap
    /\ phase = "expand"
    /\ readonly = FALSE
    /\ allowUnknownUsers = FALSE
    /\ LastSnapshot = <<>>
    /\ last = NoOp
    /\ recorded = EmptyMap
    /\ accepted = EmptyMap
    /\ rl = Idle
    /\ files = EmptyMap
    /\ run = NoRun
    /\ \E long \in ExpandLongs, env \in ExpandEnvs :
          ex = [pc |-> "call", long |-> long, env |-> env]

\* target, err := expandLink(link.Long, env)
expandLinkCall ==
    /\ phase = "expand"
    /\ ex.pc = "call"
    /\ ex' = [pc |-> "expanded", long |-> ex.long, env |-> ex.env,
              target |-> expandLink(ex.long, ex.env)]
    /\ UNCHANGED <<links, statsRows, clicks, dirty, phase, readonly,
                   allowUnknownUsers, LastSnapshot, last, recorded,
                   accepted, rl, files, run>>

\* the response of serveGo to the expansion
serveGoRespond ==
    /\ phase = "expand"
    /\ ex.pc = "expanded"
    /\ ex' = [pc |-> "done", long |-> ex.long, env |-> ex.env,
              target |-> ex.target, resp |-> serveGoResponse(ex.target)]
    /\ UNCHANGED <<links, statsRows, clicks, dirty, phase, readonly,
                   allowUnknownUsers, LastSnapshot, last, recorded,
                   accepted, rl, files, run>>

NextExpand == expandLinkCall \/ serveGoRespond

SpecExpand == InitExpand /\ [][NextExpand]_vars

-----------------------------------------------------------------------------
(* Claims about expandLink.                                                *)

\* an expansion has been made
Expanded == ex.pc \in {"expanded", "done"}

\* Long followed by the remainder as the default behaviour joins them
Joined(long, path) ==
    IF path = <<>> THEN long
    ELSE IF HasSuffix(long, "/") THEN long \o path
    ELSE long \o <<"/">> \o path

\* no slash follows a slash where Long ends and where the remainder starts
NoDoubleSlashAtJoin(long, text) ==
    \A i \in {Len(long), Len(long) + 1} :
        ~(i + 1 <= Len(text) /\ text[i] = "/" /\ text[i + 1] = "/")

\* the default behaviour for the remainders that neither start with a slash
\* nor hold an invalid escape
C17_JoinsPlainRemainder ==
    /\ Expanded
    /\ ~HasTemplate(ex.long)
    /\ ex.env.query = <<>>
    /\ URLParses(ex.env.Path)
    /\ ~HasPrefix(ex.env.Path, <<"/">>)
    => /\ ex.target.err = "nil"
       /\ URLString(ex.target.url) = Joined(ex.long, ex.env.Path)
       /\ NoDoubleSlashAtJoin(ex.long, URLString(ex.target.url))

\* C17: for every Long without template and every remainder p, expandLink
\* yields Long when p is empty, Long followed by p when Long ends in a
\* slash, and Long, one slash and p otherwise; no slash is doubled at the
\* join and nothing is left behind an empty remainder.
C17_AppendsRemainder ==
    Expanded /\ ~HasTemplate(ex.long) /\ ex.env.query = <<>> =>
        /\ ex.target.err = "nil"
        /\ URLString(ex.target.url) = Joined(ex.long, ex.env.Path)
        /\ NoDoubleSlashAtJoin(ex.long, URLString(ex.target.url))

\* a sequence as a bag of its elements
BagOfSeq(s) ==
    [x \in {s[i] : i \in DOMAIN s} |->
        Cardinality({i \in DOMAIN s : s[i] = x})]

\* the settings of a URL's query, as query.Encode writes them
SettingsOf(u) ==
    LET kvs == SplitAmp(u.RawQuery)
    IN  BagOfSeq([i \in DOMAIN kvs |-> EncodeSetting(kvs[i])])

\* the expansion for the same link and request without its query
OwnURL == expandLink(ex.long, [ex.env EXCEPT !.query = <<>>]).url

\* Long /rel?a=1 requested with the query a=2&b=2 gives /rel?a=1&a=2&b=2
C19_Example ==
    /\ Expanded
    /\ ex.long = <<"/", "rel", "?", "a=1">>
    /\ ex.env.Path = <<>>
    /\ ex.env.query = <<<<"a=2">>, <<"b=2">>>>
    => /\ ex.target.err = "nil"
       /\ URLString(ex.target.url) =
             <<"/", "rel", "?", "a=1", "&", "a=2", "&", "b=2">>

\* the settings of the request are in the result, each as often as the
\* request has it on top of the expanded URL's own
C19_RequestAdded ==
    Expanded /\ ex.target.err = "nil" /\ ex.env.query # <<>> =>
        \A kv \in DOMAIN BagOfSeq(ex.env.query) :
            /\ kv \in DOMAIN SettingsOf(ex.target.url)
            /\ SettingsOf(ex.target.url)[kv] >= BagOfSeq(ex.env.query)[kv]

\* C19: when the request has query parameters, the query of the result
\* holds every setting of the expanded URL's own query and every setting of
\* the request; the values of a key in both accumulate, and no setting of
\* the link is replaced or dropped.
C19_QueryAccumulates ==
    /\ Expanded /\ ex.target.err = "nil" /\ ex.env.query # <<>> =>
          SettingsOf(ex.target.url) =
              SettingsOf(OwnURL) (+) BagOfSeq(ex.env.query)
    /\ C19_Example

\* the link refers to the current user and to nothing that fails otherwise
NeedsUser(long) ==
    /\ \E i \in 1..Len(long) : long[i] = TmplUser
    /\ \A i \in 1..Len(long) : long[i] \notin {TmplInvalid, TmplOpen}

\* C18: a link whose template refers to the current user expands to the
\* error errNoUser and no URL when the request has no user, and serveGo
\* answers 401 without a Location; with a user, the login is part of the
\* expanded URL.
C18_NoUserIs401 ==
    ex.pc = "done" /\ NeedsUser(ex.long) =>
        /\ ex.env.user = "" =>
              /\ ex.target.err = "errNoUser"
              /\ ex.target.url = NilURL
              /\ ex.resp.status = 401
              /\ ex.resp.Location = <<>>
        /\ ex.env.user # "" =>
              /\ ex.target.err # "errNoUser"
              /\ ex.resp.status # 401
              /\ ex.target.err = "nil" =>
                    /\ \E i \in 1..Len(ex.target.url.Path) :
                          ex.target.url.Path[i] = ex.env.user
                    /\ ex.resp.status = 302
                    /\ ex.resp.Location = URLString(ex.target.url)

\* a link that needs a user has been answered 401 for a request without
\* user
C18_Witness ==
    /\ ex.pc = "done"
    /\ NeedsUser(ex.long)
    /\ ex.env.user = ""
    /\ ex.resp.status = 401

-----------------------------------------------------------------------------
(* Claims about the validation of save requests.                           *)

\* the form has an empty short name or long, a short name that is not a
\* word character followed by word characters, dashes and periods, or a
\* long with an action that is not closed
InvalidForm(form) ==
    \/ form.short = <<>>
    \/ form.long = <<>>
    \/ form.short[1] \notin WordChars
    \/ \E i \in 1..Len(form.short) : form.short[i] \notin WordChars \cup {"-", "."}
    \/ \E i \in 1..Len(form.long) : form.long[i] = TmplOpen

\* the response of the serving server to an invalid form has the status
\* code, whatever the user, the token, the tailnet and the state of the
\* database are, and leaves the links as they are without an error of the
\* store
InvalidAnswered(code) ==
    \A form \in SaveForms, e \in SaveEnvs, now \in Times :
        phase = "serving" /\ InvalidForm(form) =>
            LET res == serveSaveResult(form, e.whois, e.tokenOK, e.st, now,
                                       e.fault)
            IN  /\ res.status = code
                /\ res.links = links
                /\ res.err = "nil"

\* C20 as stated: a save request with an empty short name, an empty long, a
\* short name that is not a word character followed by word characters,
\* dashes and periods, or a long that is no parseable template is answered
\* 400 before the store is accessed, and no stored link changes.
C20_InvalidIs400 ==
    /\ InvalidAnswered(400)
    /\ last.op = "serveSave" /\ ~last.valid =>
          last.status = 400 /\ last.err = "nil"

\* C20: on a server that is not read-only such a request is answered 400,
\* on a read-only server 405; in both cases before the store is accessed,
\* and no stored link changes.
C20_InvalidRejected ==
    /\ InvalidAnswered(IF readonly THEN 405 ELSE 400)
    /\ last.op = "serveSave" /\ ~last.valid =>
          /\ last.status = IF readonly THEN 405 ELSE 400
          /\ last.err = "nil"

\* an invalid save request has been answered 400 by a server with stored
\* links
C20_Witness ==
    /\ last.op = "serveSave"
    /\ ~last.valid
    /\ last.status = 400
    /\ links # {}
    /\ \E form \in SaveForms : InvalidForm(form) /\ form.short = <<>>


-----------------------------------------------------------------------------
(* Save under a failing medium: SQLiteDB.Save and FileDB.Save.             *)

\* json.MarshalIndent(link, "", "  "): the text of the file in chunks, the
\* opening brace, one chunk per field and the closing brace (Clicks is
\* left out: omitempty)
Marshal(link) ==
    << [k |-> "{",        v |-> <<>>],
       [k |-> "Short",    v |-> link.Short],
       [k |-> "Long",     v |-> link.Long],
       [k |-> "Created",  v |-> <<link.Created>>],
       [k |-> "LastEdit", v |-> <<link.LastEdit>>],
       [k |-> "Owner",    v |-> <<link.Owner>>],
       [k |-> "}",        v |-> <<>>] >>

\* json.Unmarshal(data, link): a text that does not end with the closing
\* brace of the object is an error ("unexpected end of JSON input")
Unmarshal(data) ==
    IF Len(data) = 0 \/ data[Len(data)].k # "}"
    THEN [err |-> "json", link |-> NilLink]
    ELSE [err |-> "nil",
          link |-> [Short |-> data[2].v, Long |-> data[3].v,
                    Created |-> data[4].v[1], LastEdit |-> data[5].v[1],
                    Owner |-> data[6].v[1]]]

RECURSIVE ReplaceDots(_)
\* strings.ReplaceAll(name, ".", "%2e")
ReplaceDots(s) ==
    IF s = <<>> THEN <<>>
    ELSE (IF Head(s) = "." THEN <<"%", "2", "e">> ELSE <<Head(s)>>)
         \o ReplaceDots(Tail(s))

\* linkPath returns the path to the file on disk for the specified link
\* (below f.dir)
linkPath(short) == ReplaceDots(linkID(short))

\* FileDB.Load on the directory fs: os.ReadFile, then json.Unmarshal; the
\* link is nil on every error
FileLoad(fs, short) ==
    IF linkPath(short) \notin DOMAIN fs
    THEN [err |-> "ErrNotExist", link |-> NilLink]
    ELSE Unmarshal(fs[linkPath(short)])

\* os.WriteFile(name, data, 0600) on the directory fs: the file is opened
\* with O_WRONLY|O_CREATE|O_TRUNC, which empties an existing file, then
\* data is written.  What may go wrong is the open (fault "open") or the
\* write after n chunks of the text (fault "write").  The value is the
\* directory afterwards.
WriteFile(fs, name, data, fault, n) ==
    CASE fault = "open"  -> fs
      [] fault = "write" -> Put(fs, name, SubSeq(data, 1, n))
      [] OTHER           -> Put(fs, name, data)

\* FileDB.Save(link) on the directory fs
FileSaveTo(fs, link, fault, n) ==
    [err |-> IF fault = "nil" THEN "nil" ELSE ErrIO,
     fs  |-> WriteFile(fs, linkPath(link.Short), Marshal(link), fault, n)]

\* SQLiteDB.Save(link) when the statement may fail: a statement that fails
\* changes no row
SQLSaveTo(rows, link, fail) ==
    [err  |-> IF fail THEN ErrIO ELSE "nil",
     rows |-> IF fail THEN rows ELSE SaveTo(rows, link)]

\* the links the two stores are asked to save
AtomicLinks ==
    { [Short |-> s, Long |-> l, Created |-> 0, LastEdit |-> 0, Owner |-> Foo]
        : s \in { <<"a">>, <<"A">> }, l \in {LongWho, LongMeet} }

InitAtomic ==
    /\ links = {}
    /\ statsRows = EmptyBag
    /\ clicks = EmptyMap
    /\ dirty = EmptyMap
    /\ phase = "store"
    /\ readonly = FALSE
    /\ allowUnknownUsers = FALSE
    /\ LastSnapshot = <<>>
    /\ last = NoOp
    /\ recorded = EmptyMap
    /\ accepted = EmptyMap
    /\ rl = Idle
    /\ ex = NoExpand
    /\ files = EmptyMap
    /\ run = NoRun

\* a call of SQLiteDB.Save
SQLSave ==
    \E link \in AtomicLinks, fail \in BOOLEAN :
        \E r \in {SQLSaveTo(links, link, fail)} :
            /\ links' = r.rows
            /\ last' = [NoOp EXCEPT !.op = "SQLSave", !.short = link.Short,
                                    !.link = link, !.err = r.err]
            /\ UNCHANGED <<files, run, ex, statsRows, clicks, dirty, phase,
                           readonly, allowUnknownUsers, LastSnapshot,
                           recorded, accepted, rl>>

\* a call of FileDB.Save
FileSave ==
    \E link \in AtomicLinks, fault \in {"nil", "open", "write"} :
        \E n \in IF fault = "write" THEN 0..(Len(Marshal(link)) - 1) ELSE {0} :
            \E r \in {FileSaveTo(files, link, fault, n)} :
                /\ files' = r.fs
                /\ last' = [NoOp EXCEPT !.op = "FileSave",
                                        !.short = link.Short,
                                        !.link = link, !.err = r.err]
                /\ UNCHANGED <<run, ex, links, statsRows, clicks, dirty,
                               phase, readonly, allowUnknownUsers,
                               LastSnapshot, recorded, accepted, rl>>

NextAtomic == SQLSave \/ FileSave

SpecAtomic == InitAtomic /\ [][NextAtomic]_vars

\* the spellings Load is asked about
AtomicShorts == {l.Short : l \in AtomicLinks}

\* a Save has just failed on a link whose ID had a complete record
FailedOnRecord(op, loadBefore) ==
    /\ last'.op = op
    /\ last'.err # "nil"
    /\ loadBefore.err = "nil"

\* C21 (SQL backend): a failed SQLiteDB.Save leaves the record Load
\* returned before it
C21_SQLKeepsRecord ==
    [][\A s \in AtomicShorts :
          FailedOnRecord("SQLSave", LoadFrom(links, s))
              => LoadFrom(links', s) = LoadFrom(links, s)]_vars

\* C21: a Save that fails on a link whose normalized ID already has a
\* record leaves that record complete: a later Load of the short name
\* returns the previous record, in the SQL backend and in the file backend.
C21_FailedSaveKeepsRecord ==
    [][\A s \in AtomicShorts :
          /\ FailedOnRecord("SQLSave", LoadFrom(links, s))
                => LoadFrom(links', s) = LoadFrom(links, s)
          /\ FailedOnRecord("FileSave", FileLoad(files, s))
                => FileLoad(files', s) = FileLoad(files, s)]_vars

-----------------------------------------------------------------------------
(* The handlers that load a link and use it: serveDetail and serveDelete   *)
(* on a database that may fail.                                            *)

\* the response of serveDetail: the status, the short name of the Location
\* of a redirect, the link shown and whether it is shown as editable.  After
\* a Load that failed with another error than fs.ErrNotExist the link is
\* nil, and the comparison short != link.Short, which precedes the test of
\* err, dereferences it.
serveDetailResult(short, whois, st, fault, html) ==
    LET cu == currentUser(whois)
        ld == LoadOrFail(links, short, fault)
        canEdit == canEditLink(st, ld, cu)
        ownerExists == userExists(st, ld.link.Owner).exists
        no == [NoOp EXCEPT !.op = "serveDetail"]
    IN  IF ld.err = "ErrNotExist" THEN [no EXCEPT !.status = 404]
        ELSE IF ld.err # "nil"
             THEN [no EXCEPT !.status = Panicked, !.err = "panic"]
        ELSE IF short # ld.link.Short
             THEN [no EXCEPT !.status = 302, !.short = ld.link.Short]
        ELSE IF ~html THEN [no EXCEPT !.status = 200, !.link = ld.link]
        ELSE IF cu.err THEN [no EXCEPT !.status = 500]
        ELSE [no EXCEPT !.status = 200, !.valid = canEdit,
                        !.link = [ld.link EXCEPT
                                    !.Owner = IF canEdit /\ ~ownerExists
                                              THEN cu.login ELSE @]]

serveDetail(short, whois, st, fault, html) ==
    /\ phase = "serving"
    /\ last' = serveDetailResult(short, whois, st, fault, html)
    /\ UNCHANGED <<files, run, ex, links, statsRows, clicks, dirty, phase,
                   readonly, allowUnknownUsers, LastSnapshot, recorded,
                   accepted, rl>>

\* what surrounds a detail or delete request on a database that may fail
DetailEnvs ==
    { [whois |-> w, st |-> u, fault |-> f, ok |-> b] :
        w \in WhoIsResults, u \in StatusResults, f \in BOOLEAN,
        b \in BOOLEAN }

NextDetail ==
    \/ restoreLastSnapshot
    \/ initStats
    \/ \E short \in DeleteShorts, e \in DetailEnvs :
          serveDetail(short, e.whois, e.st, e.fault, e.ok)
    \/ \E short \in DeleteShorts, e \in DetailEnvs :
          serveDelete(short, e.whois, e.ok, e.st, e.fault)

SpecDetail == Init /\ [][NextDetail]_vars

\* C22: no request makes its handler panic: when Load returns a storage
\* error other than not-found, and with it a nil link, serveDetail and
\* serveDelete answer with an error response.
C22_NoPanic ==
    last.op \in {"serveDetail", "serveDelete"} =>
        /\ last.err # "panic"
        /\ last.status # Panicked

-----------------------------------------------------------------------------
(* Visits, the flush loop and a delete request running concurrently.       *)
(* Each handler runs in its own goroutine; a step is what it does between  *)
(* two points where another goroutine can see or change the stats, the     *)
(* mutex stats.mu or the store.                                            *)

\* goroutines serving visits at the same time
NVisitors == 2
\* visits served in one behaviour
MaxVisits == 3

Visitors == 1..NVisitors

\* the visit of goroutine i has not begun or has been answered
NoVisit == [pc |-> "idle", link |-> NilLink]

\* no delete request under way
NoDelete == [pc |-> "idle", short |-> <<>>, link |-> NilLink]

\* a SaveStats that writes its rows and then fails without rolling back
SaveStatsNoRollback(rows, stats, fail) ==
    [err  |-> IF fail THEN ErrIO ELSE "nil",
     rows |-> rows (+) BatchRows(stats)]

\* SaveStats on the Stats table rows when the transaction may fail: the
\* rows are inserted in one transaction, which is rolled back on an error
SaveStatsOrFail(rows, stats, fail) ==
    [err  |-> IF fail THEN ErrIO ELSE "nil",
     rows |-> IF fail THEN rows ELSE rows (+) BatchRows(stats)]

\* a flushStats that forgets the pending clicks when SaveStats failed
flushFailedReset(d) == EmptyMap

\* stats.dirty when flushStats returns the error of SaveStats: the return
\* comes before the reset
flushFailed(d) == d

\* a flush loop that gives up after an error of flushStats
loopStopsOnError(err) == IF err # "nil" THEN "stopped" ELSE "sleep"

\* where flushStatsLoop stands after flushStats has returned err: the error
\* is logged, and the loop sleeps until its next round in either case
loopAfter(err) == "sleep"

\* the short names visited and deleted: a stored link and a name nobody saved
ConcShorts == { <<"a">>, <<"b">> }

InitConc ==
    /\ links = {LinkRow(LinkA)}
    /\ statsRows = SetToBag({[ID |-> linkID(<<"a">>), Clicks |-> 1]})
    /\ clicks = EmptyMap
    /\ dirty = EmptyMap
    /\ phase = "restored"
    /\ readonly = FALSE
    /\ allowUnknownUsers = FALSE
    /\ LastSnapshot = <<>>
    /\ last = NoOp
    /\ recorded = EmptyMap
    /\ accepted = EmptyMap
    /\ rl = Idle
    /\ ex = NoExpand
    /\ files = EmptyMap
    /\ run = NoRun

\* Run: after initStats the flush loop is started and requests are served;
\* flushStatsLoop sleeps, the mutex is free, no request is under way
startServing ==
    /\ phase = "serving"
    /\ run = NoRun
    /\ run' = [pc |-> "serving", mu |-> "free",
               v |-> [i \in Visitors |-> NoVisit], started |-> 0,
               flush |-> "sleep", del |-> NoDelete]
    /\ UNCHANGED <<files, ex, links, statsRows, clicks, dirty, phase,
                   readonly, allowUnknownUsers, LastSnapshot, last, recorded,
                   accepted, rl>>

\* serveGo up to the Load of the link
visitLoad(i, short, fault) ==
    /\ run.pc = "serving"
    /\ run.v[i].pc = "idle"
    /\ run.started < MaxVisits
    /\ \E ld \in {serveGoLoad(short, fault)} :
          IF ld.err = "nil"
          THEN /\ run' = [run EXCEPT !.v[i] = [pc |-> "loaded",
                                               link |-> ld.link],
                                     !.started = @ + 1]
               /\ last' = last
          ELSE /\ run' = [run EXCEPT !.started = @ + 1]
               /\ last' = [NoOp EXCEPT
                             !.op = "serveGo", !.err = ld.err,
                             !.status = IF ld.err = "ErrNotExist" THEN 404
                                        ELSE 500]
    /\ UNCHANGED <<files, ex, links, statsRows, clicks, dirty, phase,
                   readonly, allowUnknownUsers, LastSnapshot, recorded,
                   accepted, rl>>

\* serveGo: stats.mu.Lock() and stats.clicks[link.Short]++
visitLock(i) ==
    /\ run.pc = "serving"
    /\ run.v[i].pc = "loaded"
    /\ run.mu = "free"
    /\ run' = [run EXCEPT !.mu = "visit", !.v[i].pc = "locked"]
    /\ clicks' = Put(clicks, run.v[i].link.Short,
                     Get(clicks, run.v[i].link.Short) + 1)
    /\ UNCHANGED <<files, ex, links, statsRows, dirty, phase, readonly,
                   allowUnknownUsers, LastSnapshot, last, recorded, accepted,
                   rl>>

\* serveGo: stats.dirty[link.Short]++ and stats.mu.Unlock(), then the
\* expansion of the link and the response
visitUnlock(i, whois) ==
    /\ run.pc = "serving"
    /\ run.v[i].pc = "locked"
    /\ dirty' = Put(dirty, run.v[i].link.Short,
                    Get(dirty, run.v[i].link.Short) + 1)
    /\ run' = [run EXCEPT !.mu = "free", !.v[i] = NoVisit]
    /\ \E target \in {expandLink(run.v[i].link.Long,
                                 [Path |-> <<>>,
                                  user |-> currentUser(whois).login,
                                  query |-> <<>>])} :
          last' = [NoOp EXCEPT !.op = "serveGo",
                               !.status = serveGoResponse(target).status]
    /\ UNCHANGED <<files, ex, links, statsRows, clicks, phase, readonly,
                   allowUnknownUsers, LastSnapshot, recorded, accepted, rl>>

\* flushStatsLoop wakes up; flushStats takes stats.mu and returns nil when
\* there is nothing to flush
flushLock ==
    /\ run.pc = "serving"
    /\ run.flush = "sleep"
    /\ run.mu = "free"
    /\ IF DOMAIN dirty = {}
       THEN /\ run' = run
            /\ last' = [NoOp EXCEPT !.op = "flushStats"]
       ELSE /\ run' = [run EXCEPT !.mu = "flush", !.flush = "locked"]
            /\ last' = last
    /\ UNCHANGED <<files, ex, links, statsRows, clicks, dirty, phase,
                   readonly, allowUnknownUsers, LastSnapshot, recorded,
                   accepted, rl>>

\* flushStats: db.SaveStats(stats.dirty); on an error flushStats returns it,
\* the deferred Unlock runs, flushStatsLoop logs the error and sleeps
flushSave(fail) ==
    /\ run.pc = "serving"
    /\ run.flush = "locked"
    /\ \E r \in {SaveStatsOrFail(statsRows, dirty, fail)} :
          /\ statsRows' = r.rows
          /\ IF r.err # "nil"
             THEN /\ dirty' = flushFailed(dirty)
                  /\ run' = [run EXCEPT !.mu = "free",
                                        !.flush = loopAfter(r.err)]
                  /\ last' = [NoOp EXCEPT !.op = "flushStats",
                                          !.err = r.err]
             ELSE /\ dirty' = dirty
                  /\ run' = [run EXCEPT !.flush = "saved"]
                  /\ last' = last
    /\ UNCHANGED <<files, ex, links, clicks, phase, readonly,
                   allowUnknownUsers, LastSnapshot, recorded, accepted, rl>>

\* flushStats after SaveStats succeeded: stats.dirty = make(ClickStats),
\* return nil with the deferred Unlock; flushStatsLoop sleeps
flushReset ==
    /\ run.pc = "serving"
    /\ run.flush = "saved"
    /\ dirty' = EmptyMap
    /\ run' = [run EXCEPT !.mu = "free", !.flush = loopAfter("nil")]
    /\ last' = [NoOp EXCEPT !.op = "flushStats"]
    /\ UNCHANGED <<files, ex, links, statsRows, clicks, phase, readonly,
                   allowUnknownUsers, LastSnapshot, recorded, accepted, rl>>

\* serveDelete up to the check of the XSRF token: the request is answered
\* here unless it may delete
deleteLoad(short, e) ==
    /\ run.pc = "serving"
    /\ run.del.pc = "idle"
    /\ \E status \in {serveDeleteResult(short, e.whois, e.xsrfOK, e.st,
                                        e.fault)} :
          IF status = 200
          THEN /\ run' = [run EXCEPT !.del = [pc |-> "loaded",
                                              short |-> short,
                                              link |-> Load(short).link]]
               /\ last' = last
          ELSE /\ run' = run
               /\ last' = [NoOp EXCEPT !.op = "serveDelete",
                                       !.status = status]
    /\ UNCHANGED <<files, ex, links, statsRows, clicks, dirty, phase,
                   readonly, allowUnknownUsers, LastSnapshot, recorded,
                   accepted, rl>>

\* serveDelete: db.Delete(short)
deleteLink ==
    /\ run.pc = "serving"
    /\ run.del.pc = "loaded"
    /\ links' = DeleteFrom(links, run.del.short)
    /\ run' = [run EXCEPT !.del.pc = "deleted"]
    /\ UNCHANGED <<files, ex, statsRows, clicks, dirty, phase, readonly,
                   allowUnknownUsers, LastSnapshot, last, recorded, accepted,
                   rl>>

\* deleteLinkStats: the link's keys leave stats.clicks and stats.dirty
\* under stats.mu
deleteMem ==
    /\ run.pc = "serving"
    /\ run.del.pc = "deleted"
    /\ run.mu = "free"
    /\ clicks' = Del(clicks, run.del.link.Short)
    /\ dirty' = Del(dirty, run.del.link.Short)
    /\ run' = [run EXCEPT !.del.pc = "forgotten"]
    /\ UNCHANGED <<files, ex, links, statsRows, phase, readonly,
                   allowUnknownUsers, LastSnapshot, last, recorded, accepted,
                   rl>>

\* deleteLinkStats: db.DeleteStats(link.Short), after the Unlock; then the
\* response of serveDelete
deleteRows ==
    /\ run.pc = "serving"
    /\ run.del.pc = "forgotten"
    /\ statsRows' = DeleteStats(run.del.link.Short)
    /\ run' = [run EXCEPT !.del = NoDelete]
    /\ last' = [NoOp EXCEPT !.op = "serveDelete", !.status = 200]
    /\ UNCHANGED <<files, ex, links, clicks, dirty, phase, readonly,
                   allowUnknownUsers, LastSnapshot, recorded, accepted, rl>>

\* the steps of the flush loop and of the requests; the delete requests
\* are those of the admin, with a token
NextConc ==
    \/ initStats
    \/ startServing
    \/ flushLock
    \/ \E fail \in BOOLEAN : flushSave(fail)
    \/ flushReset
    \/ \E i \in Visitors, short \in ConcShorts, fault \in BOOLEAN :
          visitLoad(i, short, fault)
    \/ \E i \in Visitors : visitLock(i)
    \/ \E i \in Visitors, whois \in WhoIsResults : visitUnlock(i, whois)
    \/ \E short \in ConcShorts :
          \E e \in {x \in DeleteEnvs : x.whois.login = Bar /\ ~x.fault} :
             deleteLoad(short, e)
    \/ deleteLink
    \/ deleteMem
    \/ deleteRows

\* Fairness: every goroutine that holds stats.mu or has begun a delete goes
\* on; the flush loop is scheduled again and again, and SaveStats does not
\* fail forever
SpecConc ==
    /\ InitConc
    /\ [][NextConc]_vars
    /\ \A i \in Visitors : WF_vars(\E whois \in WhoIsResults :
                                      visitUnlock(i, whois))
    /\ WF_vars(deleteLink)
    /\ WF_vars(deleteMem)
    /\ WF_vars(deleteRows)
    /\ SF_vars(flushLock)
    /\ SF_vars(flushSave(FALSE))
    /\ WF_vars(flushReset)

\* the clicks not yet stored of the keys that normalize to id
DirtyTotal(id) ==
    LET ks == {k \in DOMAIN dirty : linkID(k) = id}
    IN  SumOver(ks, dirty)

FailedFlush ==
    /\ run.pc = "serving"
    /\ run.flush = "locked"
    /\ run'.flush = "sleep"

\* the step takes clicks out of stats.dirty
DirtyShrinks == \E k \in DOMAIN dirty : Get(dirty', k) < dirty[k]

\* C24: a flushStats whose SaveStats fails leaves stats.dirty and the Stats
\* table as they were and returns the error; flushStatsLoop logs it and
\* sleeps until its next round, which submits the same increments again.
\* Clicks leave stats.dirty only in the reset that follows a successful
\* SaveStats (or with the deletion of their link).
C24_FailedFlushRetried ==
    [][/\ FailedFlush =>
             /\ dirty' = dirty
             /\ dirty' # EmptyMap
             /\ statsRows' = statsRows
             /\ last'.op = "flushStats"
             /\ last'.err # "nil"
             /\ run'.mu = "free"
       /\ DirtyShrinks =>
             \/ run.flush = "saved" /\ run'.flush = "sleep"
             \/ run.del.pc = "deleted" /\ run'.del.pc = "forgotten"]_vars

\* a flush has failed and the clicks it could not store are still pending
C24_Witness ==
    /\ run.pc = "serving"
    /\ last.op = "flushStats"
    /\ last.err # "nil"
    /\ run.flush = "sleep"
    /\ dirty # EmptyMap

\* the link of ID id is stored and has clicks that are not yet stored, its
\* in-memory total being n
PendingAt(id, n) ==
    /\ run.pc = "serving"
    /\ \E r \in links : r.ID = id
    /\ DirtyTotal(id) > 0
    /\ MemTotal(id) = n

\* the Stats table holds n clicks of the link of ID id, or the link is gone
WrittenUpTo(id, n) ==
    \/ SumClicks(id) >= n
    \/ \A r \in links : r.ID # id

\* flushStatsLoop is in its time.Sleep
LoopSleeps == run.pc = "serving" /\ run.flush = "sleep"

\* C25: with the flush loop scheduled fairly and a SaveStats that does not
\* fail forever, every click pending in stats.dirty for a link that still
\* exists is eventually written to the store, and the flush loop returns
\* to its sleep again and again, after a failed flush too.
C25_DirtyEventuallyWritten ==
    /\ \A n \in 1..(MaxVisits + 1) :
          PendingAt(linkID(<<"a">>), n) ~> WrittenUpTo(linkID(<<"a">>), n)
    /\ (run.pc = "serving") ~> []<>LoopSleeps

\* SaveStats has just stored the pending clicks of the stored link
C25_Witness ==
    /\ run.pc = "serving"
    /\ run.flush = "saved"
    /\ links # {}
    /\ DirtyTotal(linkID(<<"a">>)) > 0
    /\ SumClicks(linkID(<<"a">>)) = MemTotal(linkID(<<"a">>))

\* the step is a visit that was counted in stats.clicks
CountedVisit ==
    /\ last'.op = "serveGo"
    /\ \E k \in DOMAIN clicks' : clicks'[k] = Get(clicks, k) + 1

\* C26: serveGo counts the click after the expansion has returned a target
\* URL and before the redirect: a visit that is counted is a visit whose
\* link expanded, and it is answered with the redirect.
C26_CountedAfterExpansion ==
    [][CountedVisit => last'.status = 302]_vars

\* no visit and no delete request is under way, the flush loop sleeps and
\* nothing is left to flush
Settled ==
    /\ run.pc = "serving"
    /\ \A i \in Visitors : run.v[i].pc = "idle"
    /\ run.del.pc = "idle"
    /\ run.flush = "sleep"
    /\ dirty = EmptyMap

\* no click stats of the short name are left, in memory or in the store
NoStatsOf(short) ==
    /\ \A k \in DOMAIN clicks \cup DOMAIN dirty : linkID(k) # linkID(short)
    /\ SumClicks(linkID(short)) = 0
    /\ linkID(short) \notin StatsIDs

\* C27: a visit that runs concurrently with the deletion of its link leaves
\* no click stats of the deleted link behind: once both requests are
\* complete and the flush that follows is done, a link that is not stored
\* has no clicks in stats.clicks nor in the Stats table.
C27_NoStatsOfDeleted ==
    Settled =>
        \A short \in ConcShorts :
            Load(short).err = "ErrNotExist" => NoStatsOf(short)

\* the ClickStats map m holds at most one key per normalized ID
OneKeyPerID(m) ==
    \A k1, k2 \in DOMAIN m : linkID(k1) = linkID(k2) => k1 = k2

\* C28: stats.clicks and stats.dirty hold at most one key per normalized
\* ID, also after a link with clicks was saved again under another spelling
\* of its ID; so, once the pending clicks are flushed, the in-memory total
\* of every stored link is what LoadStats returns for it.
C28_OneKeyPerIdentity ==
    phase = "serving" =>
        /\ OneKeyPerID(clicks)
        /\ OneKeyPerID(dirty)
        /\ dirty = EmptyMap =>
              \A m \in LoadStats : \A r \in links :
                  Get(m, r.Short) = Get(clicks, r.Short)

-----------------------------------------------------------------------------
(* canEditLink on drawn links, users and tailnets.                         *)

\* what Load has returned to the caller of canEditLink: no link, or a link
\* without owner, of Foo, of Bar, of the owner of tagged devices
EditLoads ==
    { [err |-> "ErrNotExist", link |-> NilLink] } \cup
    { [err |-> "nil", link |-> [LinkA EXCEPT !.Owner = o]] :
        o \in {"", Foo, Bar, userTaggedDevices} }

\* the users who ask: Foo, the admin Bar, and the user without login of a
\* server that allows unknown users
EditUsers ==
    { [login |-> Foo, isAdmin |-> FALSE, err |-> FALSE],
      [login |-> Bar, isAdmin |-> TRUE, err |-> FALSE],
      [login |-> "", isAdmin |-> FALSE, err |-> FALSE] }

\* what localClient.Status tells, its failure included
EditStatuses == StatusResults \cup { [err |-> TRUE, users |-> {}] }

InitEdit ==
    /\ links = {}
    /\ statsRows = EmptyBag
    /\ clicks = EmptyMap
    /\ dirty = EmptyMap
    /\ phase = "edit"
    /\ readonly \in BOOLEAN
    /\ allowUnknownUsers = FALSE
    /\ LastSnapshot = <<>>
    /\ last = NoOp
    /\ recorded = EmptyMap
    /\ accepted = EmptyMap
    /\ rl = Idle
    /\ ex = NoExpand
    /\ files = EmptyMap
    /\ \E ld \in EditLoads, u \in EditUsers, st \in EditStatuses :
          run = [pc |-> "canEditLink", ld |-> ld, u |-> u, st |-> st,
                 granted |-> FALSE]

\* the call canEditLink(ctx, link, u) returns
canEditLinkCall ==
    /\ phase = "edit"
    /\ run.pc = "canEditLink"
    /\ run' = [run EXCEPT !.pc = "returned",
                          !.granted = canEditLink(run.st, run.ld, run.u)]
    /\ UNCHANGED <<files, ex, links, statsRows, clicks, dirty, phase,
                   readonly, allowUnknownUsers, LastSnapshot, last, recorded,
                   accepted, rl>>

NextEdit == canEditLinkCall

SpecEdit == InitEdit /\ [][NextEdit]_vars

\* the lookup of the owner told that owner is no user of the tailnet; the
\* owner of tagged devices is never one
ConfirmedAbsent(st, owner) ==
    \/ owner = userTaggedDevices
    \/ ~st.err /\ owner \notin st.users

\* the lookup of the owner returned an error
LookupFailed(st, owner) == owner # userTaggedDevices /\ st.err

-----------------------------------------------------------------------------
(* The read-only server.                                                   *)

\* the step is the answer to a save or delete request
SaveOrDelete == last'.op \in {"serveSave", "serveDelete"}

\* canEditLink returns false for every link and every user
NobodyCanEdit ==
    \A ld \in EditLoads, u \in EditUsers, st \in EditStatuses :
        ~canEditLink(st, ld, u)

=============================================================================
